---- MODULE Spec2Model ----
(***************************************************************************)
(* Model of the degree-of-freedom manager                                  *)
(* (porepy/numerics/mixed_dim/dof_manager.py) and of the forward-mode AD   *)
(* operator tree and its evaluation (porepy/numerics/ad/operators.py).     *)
(*                                                                         *)
(* block_dof is modelled as the sequence of its entries in insertion       *)
(* order, the stored values as functions of the pairs (grid, variable),    *)
(* numpy arrays as sequences (python index i is position i + 1), sparse    *)
(* matrices as records [nrow, ncol, a] with a dense entry function.        *)
(***************************************************************************)
EXTENDS Integers, Sequences, FiniteSets, TLC

VARIABLES
    primary_variables,    \* data[pp.PRIMARY_VARIABLES] of every grid-like entity
    secondary_variables,  \* data[pp.SECONDARY_VARIABLES] of every grid-like entity
    block_dof,            \* DofManager.block_dof: (grid, variable) -> block index
    full_dof,             \* DofManager.full_dof: number of dofs per block index
    state,                \* data[pp.STATE][var] of every (grid, variable)
    iterate,              \* data[pp.STATE][pp.ITERATE][var] of every (grid, variable)
    ret,                  \* outcome of the last call: result or raised exception
    Variable_ids,         \* Variable._ids: the value that next(Variable._ids) returns
    instances             \* the Variable and MergedVariable objects constructed so far

vars == <<primary_variables, secondary_variables, block_dof, full_dof, state, iterate, ret,
          Variable_ids, instances>>

(***************************************************************************)
(* Bounds of the model.                                                    *)
(***************************************************************************)
\* Largest number of variable declarations in the data dictionaries.
MaxDecl == 3
\* Largest number of declarations present when the DofManager is constructed.
MaxInitDecl == 2
\* Largest entry of the vectors handed to the operations.
MaxValue == 2

(***************************************************************************)
(* The mixed-dimensional grid: a 1d subdomain with one cell, a 0d point    *)
(* subdomain, and the interface (mortar grid) between them.                *)
(***************************************************************************)
Subdomains == <<"sd1", "sd2">>
Interfaces == <<"intf1">>
GridLikes == Subdomains \o Interfaces

Grid == [sd1   |-> [num_cells |-> 1, num_faces |-> 2, num_nodes |-> 2],
         sd2   |-> [num_cells |-> 1, num_faces |-> 0, num_nodes |-> 1],
         intf1 |-> [num_cells |-> 1, num_faces |-> 0, num_nodes |-> 0]]

\* isinstance(g, pp.MortarGrid)
IsInterface(g) == \E i \in 1..Len(Interfaces) : Interfaces[i] = g

VarNames == {"p", "q"}

\* The local_dofs dictionary with which each variable is declared; a missing
\* key is 0: p has two dofs per cell, q one per face and one per node.
LocalDofs == [p |-> [cells |-> 2, faces |-> 0, nodes |-> 0],
              q |-> [cells |-> 0, faces |-> 1, nodes |-> 1]]

(***************************************************************************)
(* Helpers for sequences and for dictionaries kept in insertion order.     *)
(***************************************************************************)
Range(s) == {s[i] : i \in 1..Len(s)}

InList(x, s) == \E i \in 1..Len(s) : s[i] = x

RECURSIVE SumSeq(_)
SumSeq(s) == IF s = <<>> THEN 0 ELSE Head(s) + SumSeq(Tail(s))

RECURSIVE Flatten(_)
Flatten(ss) == IF ss = <<>> THEN <<>> ELSE Head(ss) \o Flatten(Tail(ss))

\* Optional arguments: None, or a value.
None == [is_none |-> TRUE, value |-> <<>>]
Some(v) == [is_none |-> FALSE, value |-> v]

\* (g, var) in d
HasKey(d, g, var) == \E i \in 1..Len(d) : d[i].g = g /\ d[i].var = var

KeyPos(d, g, var) == CHOOSE i \in 1..Len(d) : d[i].g = g /\ d[i].var = var

\* d[(g, var)]
Get(d, g, var) == d[KeyPos(d, g, var)].val

\* d[(g, var)] = val
Put(d, g, var, val) ==
    IF HasKey(d, g, var)
    THEN [d EXCEPT ![KeyPos(d, g, var)].val = val]
    ELSE Append(d, [g |-> g, var |-> var, val |-> val])

\* d.update(other)
RECURSIVE Update(_, _)
Update(d, other) ==
    IF other = <<>> THEN d
    ELSE Update(Put(d, Head(other).g, Head(other).var, Head(other).val), Tail(other))

\* The keys of d
Keys(d) == {<<d[i].g, d[i].var>> : i \in 1..Len(d)}

(***************************************************************************)
(* DofManager                                                              *)
(***************************************************************************)
\* Number of dofs of one declaration on a subdomain / on an interface.
total_local_dofs(g, local_dofs) ==
    IF IsInterface(g)
    THEN Grid[g].num_cells * local_dofs.cells
    ELSE Grid[g].num_cells * local_dofs.cells
         + Grid[g].num_faces * local_dofs.faces
         + Grid[g].num_nodes * local_dofs.nodes

\* The declarations in the order in which _create_dofs visits them: for every
\* subdomain its primary, then its secondary variables; then the same for
\* every interface.
RECURSIVE ScanOrder(_, _, _)
ScanOrder(grids, prim, sec) ==
    IF grids = <<>> THEN <<>>
    ELSE LET g == Head(grids)
             tag(decls) == [i \in 1..Len(decls) |->
                               [g |-> g, var |-> decls[i].var, dofs |-> decls[i].dofs]]
         IN tag(prim[g]) \o tag(sec[g]) \o ScanOrder(Tail(grids), prim, sec)

\* The loop body of _create_dofs over the remaining declarations. self_block_dof
\* is the manager's dictionary, block_dof_new and full_dof_new the local ones.
RECURSIVE CreateLoop(_, _, _, _, _, _)
CreateLoop(items, for_vars, self_block_dof, counter, block_dof_new, full_dof_new) ==
    IF items = <<>>
    THEN [raised |-> "", full_dof |-> full_dof_new, block_dof |-> block_dof_new]
    ELSE LET it == Head(items) IN
         IF ~for_vars.is_none /\ ~InList(it.var, for_vars.value)
         THEN CreateLoop(Tail(items), for_vars, self_block_dof, counter,
                         block_dof_new, full_dof_new)
         ELSE IF HasKey(self_block_dof, it.g, it.var)
         THEN [raised |-> "ValueError", full_dof |-> <<>>, block_dof |-> <<>>]
         ELSE CreateLoop(Tail(items), for_vars, self_block_dof, counter + 1,
                         Put(block_dof_new, it.g, it.var, counter),
                         Append(full_dof_new, total_local_dofs(it.g, it.dofs)))

\* _create_dofs looking for a pair in the dictionary of the new blocks, not
\* in the one of the manager
create_dofs_checks_new(prim, sec, self_block_dof, for_vars) ==
    CreateLoop(ScanOrder(GridLikes, prim, sec), for_vars, <<>>,
               Len(self_block_dof), <<>>, <<>>)

\* DofManager._create_dofs(for_vars)
create_dofs(prim, sec, self_block_dof, for_vars) ==
    CreateLoop(ScanOrder(GridLikes, prim, sec), for_vars, self_block_dof,
               Len(self_block_dof), <<>>, <<>>)

\* DofManager.num_dofs()
num_dofs(fd) == SumSeq(fd)

\* np.hstack((0, np.cumsum(full_dof)))[k]
dof_start(fd, k) == SumSeq(SubSeq(fd, 1, k))

\* np.arange(a, b)
arange(a, b) == [i \in 1..(IF b > a THEN b - a ELSE 0) |-> a + i - 1]

\* DofManager._block_range_from_grid_and_var(g, variable)
block_range_from_grid_and_var(bd, fd, g, variable) ==
    LET block_ind == Get(bd, g, variable)
    IN <<dof_start(fd, block_ind), dof_start(fd, block_ind + 1)>>

\* DofManager.grid_and_variable_to_dofs(grid, variable)
grid_and_variable_to_dofs(bd, fd, grid, variable) ==
    LET block_ind == Get(bd, grid, variable)
    IN arange(dof_start(fd, block_ind), dof_start(fd, block_ind + 1))

(***************************************************************************)
(* Matrices and vectors (scipy.sparse / numpy)                             *)
(***************************************************************************)
\* np.unique: the sorted sequence of the distinct elements
RECURSIVE SortedSeq(_)
SortedSeq(S) ==
    IF S = {} THEN <<>>
    ELSE LET m == CHOOSE x \in S : \A y \in S : x <= y
         IN <<m>> \o SortedSeq(S \ {m})

\* The distinct elements in the order of their first occurrence, not sorted
unique_unsorted(s) ==
    LET firsts == SelectSeq([i \in 1..Len(s) |-> <<s[i], \A j \in 1..(i - 1) : s[j] # s[i]>>],
                            LAMBDA e : e[2])
    IN [i \in 1..Len(firsts) |-> firsts[i][1]]

unique(s) == SortedSeq(Range(s))

\* sps.coo_matrix((data, (row, col)), shape=(nrow, ncol)); duplicate entries are
\* summed. row and col hold python (zero-based) indices.
coo_matrix(data, row, col, nrow, ncol) ==
    [nrow |-> nrow, ncol |-> ncol,
     a |-> [i \in 1..nrow |-> [j \in 1..ncol |->
              SumSeq([k \in 1..Len(data) |->
                         IF row[k] = i - 1 /\ col[k] = j - 1 THEN data[k] ELSE 0])]]]

\* sps.csr_matrix((nrow, ncol)): the zero matrix
zero_matrix(nrow, ncol) ==
    [nrow |-> nrow, ncol |-> ncol, a |-> [i \in 1..nrow |-> [j \in 1..ncol |-> 0]]]

ones(n) == [i \in 1..n |-> 1]

\* A.T
transpose(A) ==
    [nrow |-> A.ncol, ncol |-> A.nrow,
     a |-> [i \in 1..A.ncol |-> [j \in 1..A.nrow |-> A.a[j][i]]]]

\* A @ x for a vector x
matvec(A, x) ==
    [i \in 1..A.nrow |->
        SumSeq([j \in 1..A.ncol |-> A.a[i][j] * x[j]])]

\* A @ B
matmul(A, B) ==
    [nrow |-> A.nrow, ncol |-> B.ncol,
     a |-> [i \in 1..A.nrow |-> [j \in 1..B.ncol |->
              SumSeq([k \in 1..A.ncol |-> A.a[i][k] * B.a[k][j]])]]]

\* The dofs of all registered pairs named var, in the order of block_dof:
\* [grid_and_variable_to_dofs(grid, var) for pair in block_dof if pair[1] == var]
RECURSIVE dofs_of_var(_, _, _, _)
dofs_of_var(bd, fd, var, k) ==
    IF k > Len(bd) THEN <<>>
    ELSE (IF bd[k].var = var
          THEN <<grid_and_variable_to_dofs(bd, fd, bd[k].g, var)>>
          ELSE <<>>) \o dofs_of_var(bd, fd, var, k + 1)

\* The list inds built by the loop of projection_to.
RECURSIVE projection_inds(_, _, _)
projection_inds(bd, fd, variables) ==
    IF variables = <<>> THEN <<>>
    ELSE dofs_of_var(bd, fd, Head(variables), 1)
         \o projection_inds(bd, fd, Tail(variables))

\* projection_to with the call of np.unique left out.
projection_to_no_unique(bd, fd, variables) ==
    LET num_global_dofs == num_dofs(fd)
        inds == projection_inds(bd, fd, variables)
    IN IF Len(inds) = 0
       THEN zero_matrix(0, num_global_dofs)
       ELSE LET local_dofs == Flatten(inds)
                num_local_dofs == Len(local_dofs)
            IN coo_matrix(ones(num_local_dofs), arange(0, num_local_dofs),
                          local_dofs, num_local_dofs, num_global_dofs)

\* projection_to taking a request that selects nothing for a request of
\* everything
projection_to_all_if_empty(bd, fd, variables) ==
    LET num_global_dofs == num_dofs(fd)
        inds == projection_inds(bd, fd, variables)
    IN IF Len(inds) = 0
       THEN coo_matrix(ones(num_global_dofs), arange(0, num_global_dofs),
                       arange(0, num_global_dofs), num_global_dofs, num_global_dofs)
       ELSE LET local_dofs == unique(Flatten(inds))
                num_local_dofs == Len(local_dofs)
            IN coo_matrix(ones(num_local_dofs), arange(0, num_local_dofs),
                          local_dofs, num_local_dofs, num_global_dofs)

\* DofManager.projection_to(variables)
projection_to(bd, fd, variables) ==
    LET num_global_dofs == num_dofs(fd)
        inds == projection_inds(bd, fd, variables)
    IN IF Len(inds) = 0
       THEN zero_matrix(0, num_global_dofs)
       ELSE LET local_dofs == unique(Flatten(inds))
                num_local_dofs == Len(local_dofs)
            IN coo_matrix(ones(num_local_dofs), arange(0, num_local_dofs),
                          local_dofs, num_local_dofs, num_global_dofs)

(***************************************************************************)
(* The data dictionaries of the grid                                       *)
(***************************************************************************)
Declares(decls, var) == \E i \in 1..Len(decls) : decls[i].var = var

NumDecl(prim, sec) ==
    SumSeq([i \in 1..Len(GridLikes) |-> Len(prim[GridLikes[i]]) + Len(sec[GridLikes[i]])])

EmptyData == [g \in Range(GridLikes) |-> <<>>]

\* data[key][var] = dofs for a new variable var
AddDecl(decls, g, var, dofs) ==
    [decls EXCEPT ![g] = Append(@, [var |-> var, dofs |-> dofs])]

\* The data dictionaries with at most k declarations.
RECURSIVE DataUpTo(_)
DataUpTo(k) ==
    IF k = 0 THEN {[prim |-> EmptyData, sec |-> EmptyData]}
    ELSE LET prev == DataUpTo(k - 1)
         IN prev
            \cup {[d EXCEPT !.prim = AddDecl(d.prim, g, v, LocalDofs[v])] :
                    d \in prev, g \in Range(GridLikes), v \in VarNames}
            \cup {[d EXCEPT !.sec = AddDecl(d.sec, g, v, LocalDofs[v])] :
                    d \in prev, g \in Range(GridLikes), v \in VarNames}

WellFormedData(d) ==
    \A g \in Range(GridLikes) :
        /\ \A i, j \in 1..Len(d.prim[g]) : d.prim[g][i].var = d.prim[g][j].var => i = j
        /\ \A i, j \in 1..Len(d.sec[g]) : d.sec[g][i].var = d.sec[g][j].var => i = j

(***************************************************************************)
(* The DofManager: construction and operations                             *)
(***************************************************************************)
\* DofManager.__init__(mdg) on a grid whose data dictionaries hold d
Init ==
    \E d \in {e \in DataUpTo(MaxInitDecl) : WellFormedData(e)} :
        LET created == create_dofs(d.prim, d.sec, <<>>, None)
        IN /\ primary_variables = d.prim
           /\ secondary_variables = d.sec
           /\ full_dof = <<>> \o created.full_dof
           /\ block_dof = Update(<<>>, created.block_dof)
           /\ state = <<>>
           /\ iterate = <<>>
           /\ Variable_ids = 0
           /\ instances = <<>>
           /\ ret = [op |-> "init", args |-> <<>>, raised |-> "", out |-> <<>>]

\* The user declares a new primary variable in the data of g.
DeclarePrimary(g, var, dofs) ==
    /\ NumDecl(primary_variables, secondary_variables) < MaxDecl
    /\ ~Declares(primary_variables[g], var)
    /\ primary_variables' = AddDecl(primary_variables, g, var, dofs)
    /\ ret' = [op |-> "declare", args |-> <<>>, raised |-> "", out |-> <<>>]
    /\ UNCHANGED <<Variable_ids, instances, secondary_variables, block_dof, full_dof, state, iterate>>

\* The user declares a new secondary variable in the data of g.
DeclareSecondary(g, var, dofs) ==
    /\ NumDecl(primary_variables, secondary_variables) < MaxDecl
    /\ ~Declares(secondary_variables[g], var)
    /\ secondary_variables' = AddDecl(secondary_variables, g, var, dofs)
    /\ ret' = [op |-> "declare", args |-> <<>>, raised |-> "", out |-> <<>>]
    /\ UNCHANGED <<Variable_ids, instances, primary_variables, block_dof, full_dof, state, iterate>>

\* append_dofs that keeps the blocks of the pairs scanned before the one that
\* raises
append_dofs_partial(var_names) ==
    LET items == SelectSeq(ScanOrder(GridLikes, primary_variables, secondary_variables),
                           LAMBDA it : InList(it.var, var_names))
        firsts == {j \in 1..Len(items) : HasKey(block_dof, items[j].g, items[j].var)}
        stop == IF firsts = {} THEN Len(items) + 1
                ELSE CHOOSE j \in firsts : \A k \in firsts : j <= k
        created == CreateLoop(SubSeq(items, 1, stop - 1), Some(var_names), block_dof,
                              Len(block_dof), <<>>, <<>>)
    IN /\ full_dof' = full_dof \o created.full_dof
       /\ block_dof' = Update(block_dof, created.block_dof)
       /\ ret' = [op |-> "append_dofs", args |-> var_names,
                  raised |-> IF firsts = {} THEN "" ELSE "ValueError", out |-> <<>>]
       /\ UNCHANGED <<Variable_ids, instances, primary_variables, secondary_variables, state, iterate>>

\* DofManager.append_dofs(var_names)
append_dofs(var_names) ==
    LET created == create_dofs(primary_variables, secondary_variables, block_dof,
                               Some(var_names))
    IN /\ IF created.raised = ""
          THEN /\ full_dof' = full_dof \o created.full_dof
               /\ block_dof' = Update(block_dof, created.block_dof)
          ELSE UNCHANGED <<full_dof, block_dof>>
       /\ ret' = [op |-> "append_dofs", args |-> var_names,
                  raised |-> created.raised, out |-> <<>>]
       /\ UNCHANGED <<Variable_ids, instances, primary_variables, secondary_variables, state, iterate>>

\* P = DofManager.projection_to(variables)
ProjectionTo(variables) ==
    /\ ret' = [op |-> "projection_to", args |-> variables, raised |-> "",
               out |-> projection_to(block_dof, full_dof, variables)]
    /\ UNCHANGED <<Variable_ids, instances, primary_variables, secondary_variables, block_dof, full_dof,
                   state, iterate>>

\* Argument lists of variable names used by the calls.
AppendLists == {<<"p">>, <<"q">>, <<"p", "q">>, <<"r">>}
NameLists == {<<>>, <<"p">>, <<"q">>, <<"q", "p">>, <<"p", "p">>, <<"r">>}

Next ==
    \/ \E g \in Range(GridLikes), v \in VarNames : DeclarePrimary(g, v, LocalDofs[v])
    \/ \E g \in Range(GridLikes), v \in VarNames : DeclareSecondary(g, v, LocalDofs[v])
    \/ \E names \in AppendLists : append_dofs(names)
    \/ \E names \in NameLists : ProjectionTo(names)

Spec == Init /\ [][Next]_vars

(***************************************************************************)
(* Python values met during the evaluation of an operator tree: forward-AD *)
(* arrays, numpy arrays, numbers, sparse matrices, and raised exceptions.  *)
(***************************************************************************)
NoJac == zero_matrix(0, 0)

\* The message of an exception raised without one that is modelled
NoMsg == [head |-> "", msg_0 |-> "", msg_1 |-> "", shape_0 |-> <<>>, shape_1 |-> <<>>]

Ad_array(val, jac) == [py |-> "Ad_array", num |-> 0, val |-> val, jac |-> jac, mat |-> NoJac, exc |-> "",
     msg |-> NoMsg, cause |-> ""]
NdArray(val) == [py |-> "ndarray", num |-> 0, val |-> val, jac |-> NoJac, mat |-> NoJac, exc |-> "",
     msg |-> NoMsg, cause |-> ""]
Float(c) == [py |-> "float", num |-> c, val |-> <<>>, jac |-> NoJac, mat |-> NoJac, exc |-> "",
     msg |-> NoMsg, cause |-> ""]
SpMatrix(mat) == [py |-> "spmatrix", num |-> 0, val |-> <<>>, jac |-> NoJac, mat |-> mat, exc |-> "",
     msg |-> NoMsg, cause |-> ""]
Raise(exc) == [py |-> "raise", num |-> 0, val |-> <<>>, jac |-> NoJac, mat |-> NoJac, exc |-> exc,
     msg |-> NoMsg, cause |-> ""]

IsRaise(x) == x.py = "raise"

\* raise exc(msg) from cause
RaiseFrom(exc, msg, cause) ==
    [py |-> "raise", num |-> 0, val |-> <<>>, jac |-> NoJac, mat |-> NoJac, exc |-> exc,
     msg |-> msg, cause |-> cause.exc]


identity(n) ==
    [nrow |-> n, ncol |-> n,
     a |-> [i \in 1..n |-> [j \in 1..n |-> IF i = j THEN 1 ELSE 0]]]

mat_add(A, B) ==
    [nrow |-> A.nrow, ncol |-> A.ncol,
     a |-> [i \in 1..A.nrow |-> [j \in 1..A.ncol |-> A.a[i][j] + B.a[i][j]]]]

mat_scale(c, A) ==
    [nrow |-> A.nrow, ncol |-> A.ncol,
     a |-> [i \in 1..A.nrow |-> [j \in 1..A.ncol |-> c * A.a[i][j]]]]

\* diag(d) @ A: row i of A scaled by d[i]
diag_mul(d, A) ==
    [nrow |-> A.nrow, ncol |-> A.ncol,
     a |-> [i \in 1..A.nrow |-> [j \in 1..A.ncol |-> d[i] * A.a[i][j]]]]

SameShape(A, B) == A.nrow = B.nrow /\ A.ncol = B.ncol

\* numpy broadcasting of two one-dimensional arrays
CanBroadcast(u, v) == Len(u) = Len(v) \/ Len(u) = 1 \/ Len(v) = 1

BroadcastLen(u, v) == IF Len(u) = 1 THEN Len(v) ELSE Len(u)

Bc(u, n, i) == IF Len(u) = n THEN u[i] ELSE u[1]

np_add(u, v) ==
    [i \in 1..BroadcastLen(u, v) |->
        Bc(u, BroadcastLen(u, v), i) + Bc(v, BroadcastLen(u, v), i)]

np_mul(u, v) ==
    [i \in 1..BroadcastLen(u, v) |->
        Bc(u, BroadcastLen(u, v), i) * Bc(v, BroadcastLen(u, v), i)]

np_neg(u) == [i \in 1..Len(u) |-> 0 - u[i]]

np_scale(c, u) == [i \in 1..Len(u) |-> c * u[i]]

np_shift(c, u) == [i \in 1..Len(u) |-> c + u[i]]

\* values[ind]
np_take(values, ind) == [k \in 1..Len(ind) |-> values[ind[k] + 1]]

\* target[ind] = vals
np_put(target, ind, vals) ==
    [i \in 1..Len(target) |->
        IF \E k \in 1..Len(ind) : ind[k] = i - 1
        THEN vals[CHOOSE k \in 1..Len(ind) : ind[k] = i - 1 /\
                     \A m \in 1..Len(ind) : ind[m] = i - 1 => m <= k]
        ELSE target[i]]

np_zeros(n) == [i \in 1..n |-> 0]

(***************************************************************************)
(* Forward-mode AD arithmetic (porepy.numerics.ad.forward_mode)            *)
(***************************************************************************)
\* initAdArrays([state])[0]: the value state with the identity as Jacobian
initAdArrays(values) == Ad_array(values, identity(Len(values)))

\* Ad_array.__add__(other) and __radd__(other)
Ad_add(x, other) ==
    IF other.py = "Ad_array"
    THEN IF Len(x.val) = Len(other.val) /\ SameShape(x.jac, other.jac)
         THEN Ad_array(np_add(x.val, other.val), mat_add(x.jac, other.jac))
         ELSE Raise("ValueError")
    ELSE IF other.py = "ndarray"
    THEN IF CanBroadcast(x.val, other.val)
         THEN Ad_array(np_add(x.val, other.val), x.jac)
         ELSE Raise("ValueError")
    ELSE IF other.py = "float"
    THEN Ad_array(np_shift(other.num, x.val), x.jac)
    ELSE Raise("TypeError")

\* -x
Ad_neg(x) == Ad_array(np_neg(x.val), mat_scale(0 - 1, x.jac))

py_neg(x) ==
    IF x.py = "Ad_array" THEN Ad_neg(x)
    ELSE IF x.py = "ndarray" THEN NdArray(np_neg(x.val))
    ELSE IF x.py = "float" THEN Float(0 - x.num)
    ELSE Raise("TypeError")

\* Ad_array.__sub__(other): self + (-other)
Ad_sub(x, other) ==
    IF other.py \in {"Ad_array", "ndarray", "float"}
    THEN Ad_add(x, py_neg(other))
    ELSE Raise("TypeError")

\* Ad_array.__rsub__(other): other - self
Ad_rsub(x, other) ==
    LET d == Ad_sub(x, other) IN IF IsRaise(d) THEN d ELSE Ad_neg(d)

\* Ad_array.__mul__(other)
Ad_mul(x, other) ==
    IF other.py = "Ad_array"
    THEN IF Len(x.val) = Len(other.val) /\ SameShape(x.jac, other.jac)
         THEN Ad_array(np_mul(x.val, other.val),
                       mat_add(diag_mul(other.val, x.jac), diag_mul(x.val, other.jac)))
         ELSE Raise("ValueError")
    ELSE IF other.py = "ndarray"
    THEN IF Len(x.val) = Len(other.val)
         THEN Ad_array(np_mul(x.val, other.val), diag_mul(other.val, x.jac))
         ELSE Raise("ValueError")
    ELSE IF other.py = "float"
    THEN Ad_array(np_scale(other.num, x.val), mat_scale(other.num, x.jac))
    ELSE Raise("TypeError")

\* Ad_array.__rmul__(other): other * self for a number or a sparse matrix
Ad_rmul(x, other) ==
    IF other.py = "float"
    THEN Ad_array(np_scale(other.num, x.val), mat_scale(other.num, x.jac))
    ELSE IF other.py = "spmatrix"
    THEN IF other.mat.ncol = Len(x.val)
         THEN Ad_array(matvec(other.mat, x.val), matmul(other.mat, x.jac))
         ELSE Raise("ValueError")
    ELSE Raise("TypeError")

\* A combination of python values that no evaluated tree of the model produces.
Unmodelled == [py |-> "unmodelled", num |-> 0, val |-> <<>>, jac |-> NoJac, mat |-> NoJac, exc |-> "",
     msg |-> NoMsg, cause |-> ""]

\* The numbers of the model are integers: a quotient is computed where it is
\* an integer, and a quotient that is not (or that divides by zero, which
\* numpy turns into inf) is outside the modelled arithmetic.
Divides(b, a) == b # 0 /\ a % (IF b < 0 THEN 0 - b ELSE b) = 0

Quot(a, b) == IF b < 0 THEN (0 - a) \div (0 - b) ELSE a \div b

\* c * x ** -1 for a number c: Ad_array.__pow__(-1) has the value 1 / x.val and
\* the Jacobian diag(-1 / x.val ** 2) @ x.jac, and Ad_array.__rmul__(c) scales
\* both by c
Ad_scaled_inverse(c, x) ==
    IF \E i \in 1..Len(x.val) : ~Divides(x.val[i] * x.val[i], c)
    THEN Unmodelled
    ELSE Ad_array([i \in 1..Len(x.val) |-> Quot(c, x.val[i])],
                  diag_mul([i \in 1..Len(x.val) |-> 0 - Quot(c, x.val[i] * x.val[i])],
                           x.jac))

\* Ad_array.__truediv__(other): self * other ** -1
Ad_truediv(x, other) ==
    IF other.py = "float"
    THEN IF \/ other.num = 0
            \/ \E i \in 1..Len(x.val) : ~Divides(other.num, x.val[i])
            \/ \E i \in 1..x.jac.nrow : \E j \in 1..x.jac.ncol :
                  ~Divides(other.num, x.jac.a[i][j])
         THEN Unmodelled
         ELSE Ad_array([i \in 1..Len(x.val) |-> Quot(x.val[i], other.num)],
                       [nrow |-> x.jac.nrow, ncol |-> x.jac.ncol,
                        a |-> [i \in 1..x.jac.nrow |-> [j \in 1..x.jac.ncol |->
                                 Quot(x.jac.a[i][j], other.num)]]])
    ELSE Unmodelled

\* numpy's c * y for an array c and an object y that is no array: the array
\* (of data type object) of the products c[i] * y, each being y.__rmul__(c[i]).
\* Here y is x ** -1 for the Ad_array x.
ndarray_mul_inverse(c, x) == [i \in 1..Len(c) |-> Ad_scaled_inverse(c[i], x)]

\* numpy's x / y on arrays
np_truediv(u, v) ==
    IF ~CanBroadcast(u, v) THEN Raise("ValueError")
    ELSE LET n == BroadcastLen(u, v)
         IN IF \E i \in 1..n : ~Divides(Bc(v, n, i), Bc(u, n, i)) THEN Unmodelled
            ELSE NdArray([i \in 1..n |-> Quot(Bc(u, n, i), Bc(v, n, i))])

\* x + y on python values
py_add(x, y) ==
    IF x.py = "Ad_array" THEN Ad_add(x, y)
    ELSE IF y.py = "Ad_array"
    THEN (IF x.py = "float" THEN Ad_add(y, x) ELSE Unmodelled)
    ELSE IF x.py = "ndarray" /\ y.py = "ndarray"
    THEN (IF CanBroadcast(x.val, y.val) THEN NdArray(np_add(x.val, y.val))
          ELSE Raise("ValueError"))
    ELSE IF x.py = "ndarray" /\ y.py = "float" THEN NdArray(np_shift(y.num, x.val))
    ELSE IF x.py = "float" /\ y.py = "ndarray" THEN NdArray(np_shift(x.num, y.val))
    ELSE IF x.py = "float" /\ y.py = "float" THEN Float(x.num + y.num)
    ELSE Unmodelled

\* x - y on python values
py_sub(x, y) ==
    IF x.py = "Ad_array" THEN Ad_sub(x, y)
    ELSE IF y.py = "Ad_array"
    THEN (IF x.py = "float" THEN Ad_rsub(y, x) ELSE Unmodelled)
    ELSE IF x.py \in {"ndarray", "float"} /\ y.py \in {"ndarray", "float"}
    THEN py_add(x, py_neg(y))
    ELSE Unmodelled

\* x * y on python values
py_mul(x, y) ==
    IF x.py = "Ad_array"
    THEN (IF y.py = "spmatrix" THEN Unmodelled ELSE Ad_mul(x, y))
    ELSE IF y.py = "Ad_array"
    THEN (IF x.py \in {"float", "spmatrix"} THEN Ad_rmul(y, x) ELSE Unmodelled)
    ELSE IF x.py = "ndarray" /\ y.py = "ndarray"
    THEN (IF CanBroadcast(x.val, y.val) THEN NdArray(np_mul(x.val, y.val))
          ELSE Raise("ValueError"))
    ELSE IF x.py = "ndarray" /\ y.py = "float" THEN NdArray(np_scale(y.num, x.val))
    ELSE IF x.py = "float" /\ y.py = "ndarray" THEN NdArray(np_scale(x.num, y.val))
    ELSE IF x.py = "float" /\ y.py = "float" THEN Float(x.num * y.num)
    ELSE IF x.py = "spmatrix" /\ y.py = "ndarray"
    THEN (IF x.mat.ncol = Len(y.val) THEN NdArray(matvec(x.mat, y.val))
          ELSE Raise("ValueError"))
    ELSE IF x.py = "spmatrix" /\ y.py = "float" THEN SpMatrix(mat_scale(y.num, x.mat))
    ELSE IF x.py = "float" /\ y.py = "spmatrix" THEN SpMatrix(mat_scale(x.num, y.mat))
    ELSE Unmodelled

(***************************************************************************)
(* Operator trees                                                          *)
(***************************************************************************)
\* Operator.__init__ / _set_tree: an operator without children.
Leaf(kind, name) ==
    [py |-> "Operator", kind |-> kind, name |-> name, op |-> "void", children |-> <<>>,
     value |-> Float(0), id |-> 0 - 1, g |-> "", cells |-> 0, faces |-> 0, nodes |-> 0,
     num_cells |-> 0, is_edge_var |-> FALSE, prev_time |-> FALSE, prev_iter |-> FALSE,
     sub_vars |-> <<>>, func |-> "", operation |-> "void", vector_conform |-> FALSE,
     L |-> <<>>]

\* Operator(tree=Tree(op, children), name=name)
Operator(op, children, name) ==
    [Leaf("Operator", name) EXCEPT !.op = op, !.children = children]

\* pp.ad.Scalar(value)
Scalar(value) == [Leaf("Scalar", "") EXCEPT !.value = Float(value)]

\* pp.ad.Array(values)
Array(values) == [Leaf("Array", "") EXCEPT !.value = NdArray(values)]

\* pp.ad.Matrix(mat)
Matrix(mat) == [Leaf("Matrix", "") EXCEPT !.value = SpMatrix(mat)]

\* Variable(name, ndof, grids, edges, num_cells, previous_timestep,
\* previous_iteration), with id the value that next(Variable._ids) returns.
Variable(name, ndof, grids, edges, num_cells, previous_timestep, previous_iteration, id) ==
    IF (IF grids.is_none THEN Len(edges.value) # 1 ELSE Len(grids.value) # 1)
    THEN Raise("ValueError")
    ELSE [Leaf("Variable", name) EXCEPT
            !.cells = ndof.cells, !.faces = ndof.faces, !.nodes = ndof.nodes,
            !.g = IF grids.is_none THEN edges.value[1] ELSE grids.value[1],
            !.is_edge_var = grids.is_none,
            !.prev_time = previous_timestep, !.prev_iter = previous_iteration,
            !.num_cells = num_cells, !.id = id]

\* Variable.size()
size(v) ==
    IF v.is_edge_var THEN v.num_cells * v.cells
    ELSE Grid[v.g].num_cells * v.cells + Grid[v.g].num_faces * v.faces
         + Grid[v.g].num_nodes * v.nodes

\* Variable.previous_timestep(), the new variable taking the id new_id
previous_timestep(v, new_id) ==
    LET ndof == [cells |-> v.cells, faces |-> v.faces, nodes |-> v.nodes]
    IN IF v.is_edge_var
       THEN Variable(v.name, ndof, None, Some(<<v.g>>), 0, TRUE, FALSE, new_id)
       ELSE Variable(v.name, ndof, Some(<<v.g>>), None, 0, TRUE, FALSE, new_id)

\* Variable.previous_iteration(), the new variable taking the id new_id
previous_iteration(v, new_id) ==
    LET ndof == [cells |-> v.cells, faces |-> v.faces, nodes |-> v.nodes]
    IN IF v.is_edge_var
       THEN Variable(v.name, ndof, None, Some(<<v.g>>), 0, FALSE, TRUE, new_id)
       ELSE Variable(v.name, ndof, Some(<<v.g>>), None, 0, FALSE, TRUE, new_id)

\* MergedVariable(variables), taking the id new_id
MergedVariable(variables, new_id) ==
    IF Cardinality({variables[i].name : i \in 1..Len(variables)}) > 1
    THEN Raise("AssertionError")
    ELSE [Leaf("MergedVariable",
               IF Len(variables) = 0 THEN "no_sub_variables" ELSE variables[1].name)
          EXCEPT !.sub_vars = variables, !.id = new_id]

\* MergedVariable.previous_timestep(): the new sub-variables take the ids from
\* first_id on, the new merged variable the id after them.
merged_previous_timestep(m, first_id) ==
    LET new_subs == [i \in 1..Len(m.sub_vars) |->
                        previous_timestep(m.sub_vars[i], first_id + i - 1)]
    IN [MergedVariable(new_subs, first_id + Len(m.sub_vars)) EXCEPT !.prev_time = TRUE]

\* MergedVariable.previous_iteration()
merged_previous_iteration(m, first_id) ==
    LET new_subs == [i \in 1..Len(m.sub_vars) |->
                        previous_iteration(m.sub_vars[i], first_id + i - 1)]
    IN [MergedVariable(new_subs, first_id + Len(m.sub_vars)) EXCEPT !.prev_iter = TRUE]

\* Operator._parse_other(other): the children of the combination, or an exception
parse_other(self, other) ==
    IF other.py = "float" THEN [raised |-> "", children |-> <<self, Scalar(other.num)>>]
    ELSE IF other.py = "ndarray" THEN [raised |-> "", children |-> <<self, Array(other.val)>>]
    ELSE IF other.py = "spmatrix" THEN [raised |-> "", children |-> <<self, Matrix(other.mat)>>]
    ELSE IF other.py = "Operator" THEN [raised |-> "", children |-> <<self, other>>]
    ELSE [raised |-> "ValueError", children |-> <<>>]

\* Operator.__mul__(other)
op_mul(self, other) ==
    LET parsed == parse_other(self, other)
    IN IF parsed.raised # "" THEN Raise(parsed.raised)
       ELSE Operator("mul", parsed.children, "Multiplication operator")

\* Operator.__add__(other)
op_add(self, other) ==
    LET parsed == parse_other(self, other)
    IN IF parsed.raised # "" THEN Raise(parsed.raised)
       ELSE Operator("add", parsed.children, "Addition operator")

\* Operator.__sub__(other)
op_sub(self, other) ==
    LET parsed == parse_other(self, other)
    IN IF parsed.raised # "" THEN Raise(parsed.raised)
       ELSE Operator("sub", parsed.children, "Subtraction operator")

\* Operator.__truediv__(other)
op_truediv(self, other) ==
    LET parsed == parse_other(self, other)
    IN IF parsed.raised # "" THEN Raise(parsed.raised)
       ELSE Operator("div", parsed.children, "Division operator")

\* pp.ad.Function(func, name); func names the callable
Function(func, name) ==
    [Leaf("Function", name) EXCEPT !.func = func, !.operation = "evaluate"]

\* pp.ad.LJacFunction(L, func, name, vector_conform), the subclass of
\* ApproxJacFunction that implements approx_jac; L is the list self._L
LJacFunction(L, func, name, vector_conform) ==
    [Leaf("LJacFunction", name) EXCEPT !.func = func, !.operation = "approximate",
                                       !.vector_conform = vector_conform, !.L = L]

\* isinstance(op, Function)
IsFunction(op) == op.kind \in {"Function", "LJacFunction"}

\* Function.__call__ with the function as the last child
fn_call_function_last(self, args) == Operator(self.operation, args \o <<self>>, "")

\* Function.__call__(*args)
fn_call(self, args) == Operator(self.operation, <<self>> \o args, "")

\* Function.__mul__(other)
fn_mul(self, other) == Raise("RuntimeError")

\* Function.__add__(other)
fn_add(self, other) == Raise("RuntimeError")

\* Function.__sub__(other)
fn_sub(self, other) == Raise("RuntimeError")

\* self.__mul__(other), self.__add__(other), self.__sub__(other) and
\* self.__truediv__(other) as python resolves them: Function overrides the
\* first three
method_mul(self, other) ==
    IF IsFunction(self) THEN fn_mul(self, other) ELSE op_mul(self, other)

method_add(self, other) ==
    IF IsFunction(self) THEN fn_add(self, other) ELSE op_add(self, other)

method_sub(self, other) ==
    IF IsFunction(self) THEN fn_sub(self, other) ELSE op_sub(self, other)

method_truediv(self, other) == op_truediv(self, other)

\* Operator.__rmul__(other)
op_rmul(self, other) == method_mul(self, other)

\* Operator.__radd__(other)
op_radd(self, other) == method_add(self, other)

\* Operator.__rsub__(other)
op_rsub(self, other) == method_sub(self, other)

\* Operator.is_leaf()
is_leaf(op) == Len(op.children) = 0

IsVariable(op) == op.kind \in {"Variable", "MergedVariable"}

(***************************************************************************)
(* The stored values: data[pp.STATE][var] and data[pp.STATE][pp.ITERATE]   *)
(* [var] of every grid, as functions of the pairs <<g, var>> that are      *)
(* stored.                                                                 *)
(***************************************************************************)
Stored(store, g, var) == <<g, var>> \in DOMAIN store

StoreValue(store, g, var, vals) ==
    [k \in DOMAIN store \cup {<<g, var>>} |-> IF k = <<g, var>> THEN vals ELSE store[k]]

\* The additive branch overwriting the stored value
added_overwrite(old, vals) == vals

\* data[pp.STATE][var] + vals of lines 310-314
added(old, vals) == np_add(old, vals)

\* DofManager.distribute_variable: the loop over itertools.product(grids,
\* variables), pairs being that product from its k-th element on.
RECURSIVE DistributeLoop(_, _, _, _, _, _, _, _)
DistributeLoop(pairs, bd, fd, values, additive, to_iterate, st, it) ==
    IF pairs = <<>> THEN [raised |-> "", state |-> st, iterate |-> it]
    ELSE LET g == Head(pairs)[1]
             var == Head(pairs)[2]
         IN IF ~HasKey(bd, g, var)
            THEN DistributeLoop(Tail(pairs), bd, fd, values, additive, to_iterate, st, it)
            ELSE LET dof_ind == grid_and_variable_to_dofs(bd, fd, g, var)
                     vals == np_take(values, dof_ind)
                 IN IF additive
                    THEN IF to_iterate
                         THEN IF ~Stored(it, g, var)
                              THEN [raised |-> "KeyError", state |-> st, iterate |-> it]
                              ELSE DistributeLoop(Tail(pairs), bd, fd, values, additive,
                                       to_iterate, st,
                                       StoreValue(it, g, var, added(it[<<g, var>>], vals)))
                         ELSE IF ~Stored(st, g, var)
                              THEN [raised |-> "KeyError", state |-> st, iterate |-> it]
                              ELSE DistributeLoop(Tail(pairs), bd, fd, values, additive,
                                       to_iterate,
                                       StoreValue(st, g, var, added(st[<<g, var>>], vals)), it)
                    ELSE IF to_iterate
                         THEN DistributeLoop(Tail(pairs), bd, fd, values, additive,
                                  to_iterate, st, StoreValue(it, g, var, vals))
                         ELSE DistributeLoop(Tail(pairs), bd, fd, values, additive,
                                  to_iterate, StoreValue(st, g, var, vals), it)

\* itertools.product(grids, variables)
product(grids, variables) ==
    [k \in 1..(Len(grids) * Len(variables)) |->
        <<grids[((k - 1) \div Len(variables)) + 1], variables[((k - 1) % Len(variables)) + 1]>>]

\* list(set(...)): the orders in which a set can be listed
Listings(S) == {s \in [1..Cardinality(S) -> S] : Range(s) = S}

(***************************************************************************)
(* Operator.evaluate                                                       *)
(***************************************************************************)
\* Operator._find_subtree_variables()
RECURSIVE find_subtree_variables(_)
find_subtree_variables(op) ==
    IF IsVariable(op) THEN <<op>>
    ELSE Flatten([i \in 1..Len(op.children) |-> find_subtree_variables(op.children[i])])

\* sorted(list(set(...)), key=lambda var: var.id)
RECURSIVE SortById(_)
SortById(S) ==
    IF S = {} THEN <<>>
    ELSE LET first == CHOOSE x \in S : \A y \in S : x.id <= y.id
         IN <<first>> \o SortById(S \ {first})

\* np.hstack of the dofs of the sub-variables of a merged variable; a missing
\* (grid, variable) key is a KeyError
SubVarDofs(bd, fd, sub_vars) ==
    Flatten([i \in 1..Len(sub_vars) |->
                grid_and_variable_to_dofs(bd, fd, sub_vars[i].g, sub_vars[i].name)])

AllRegistered(bd, variable) ==
    IF variable.kind = "MergedVariable"
    THEN \A i \in 1..Len(variable.sub_vars) :
            HasKey(bd, variable.sub_vars[i].g, variable.sub_vars[i].name)
    ELSE HasKey(bd, variable.g, variable.name)

\* identify_variables without the branch that gives an empty merged variable its id
identify_variables_no_empty_id(op, bd, fd) ==
    LET variables == SortById(Range(find_subtree_variables(op)))
        n == Len(variables)
        with_id == SelectSeq(variables,
                       LAMBDA v : v.kind # "MergedVariable" \/ Len(v.sub_vars) > 0)
    IN IF \E i \in 1..n : ~AllRegistered(bd, variables[i])
       THEN [raised |-> "KeyError", inds |-> <<>>, variable_ids |-> <<>>,
             prev_time |-> <<>>, prev_iter |-> <<>>]
       ELSE [raised |-> "",
             inds |-> [i \in 1..n |->
                          IF variables[i].kind = "MergedVariable"
                          THEN SubVarDofs(bd, fd, variables[i].sub_vars)
                          ELSE grid_and_variable_to_dofs(bd, fd, variables[i].g,
                                                         variables[i].name)],
             variable_ids |-> [i \in 1..Len(with_id) |-> with_id[i].id],
             prev_time |-> [i \in 1..n |-> variables[i].prev_time],
             prev_iter |-> [i \in 1..n |-> variables[i].prev_iter]]

\* Operator._identify_variables(dof_manager)
identify_variables(op, bd, fd) ==
    LET variables == SortById(Range(find_subtree_variables(op)))
        n == Len(variables)
    IN IF \E i \in 1..n : ~AllRegistered(bd, variables[i])
       THEN [raised |-> "KeyError", inds |-> <<>>, variable_ids |-> <<>>,
             prev_time |-> <<>>, prev_iter |-> <<>>]
       ELSE [raised |-> "",
             inds |-> [i \in 1..n |->
                          IF variables[i].kind = "MergedVariable"
                          THEN SubVarDofs(bd, fd, variables[i].sub_vars)
                          ELSE grid_and_variable_to_dofs(bd, fd, variables[i].g,
                                                         variables[i].name)],
             variable_ids |-> [i \in 1..n |-> variables[i].id],
             prev_time |-> [i \in 1..n |-> variables[i].prev_time],
             prev_iter |-> [i \in 1..n |-> variables[i].prev_iter]]

Min(a, b) == IF a < b THEN a ELSE b

\* zip(variable_dofs, variable_ids, is_prev_time, is_prev_iter)
Zipped(iv) ==
    [i \in 1..Min(Min(Len(iv.inds), Len(iv.variable_ids)),
                  Min(Len(iv.prev_time), Len(iv.prev_iter))) |->
        [ind |-> iv.inds[i], id |-> iv.variable_ids[i],
         is_prev |-> iv.prev_time[i], is_prev_it |-> iv.prev_iter[i]]]

\* The split of lines 639-650 into previous time step, previous iteration and
\* current variables
IsPrevTime(z) == z.is_prev
IsPrevIter(z) == ~z.is_prev /\ z.is_prev_it
IsCurrent(z) == ~z.is_prev /\ ~z.is_prev_it

\* {var_id: val for (var_id, val) in zip(ids, vals)}: a later entry of the
\* same id replaces an earlier one
DictOf(entries) ==
    [id \in {entries[i].id : i \in 1..Len(entries)} |->
        entries[CHOOSE i \in 1..Len(entries) :
                    /\ entries[i].id = id
                    /\ \A j \in (i + 1)..Len(entries) : entries[j].id # id].val]

\* The loop over dof_manager.block_dof of lines 675-692, from the k-th key on
RECURSIVE PopulateLoop(_, _, _, _, _, _, _, _)
PopulateLoop(k, bd, fd, st, it, populate_state, prev_vals, seed) ==
    IF k > Len(bd) THEN [raised |-> "", prev_vals |-> prev_vals, state |-> seed]
    ELSE LET g == bd[k].g
             var == bd[k].var
             ind == grid_and_variable_to_dofs(bd, fd, g, var)
         IN IF ~Stored(st, g, var)
            THEN [raised |-> "KeyError", prev_vals |-> prev_vals, state |-> seed]
            ELSE LET pv == np_put(prev_vals, ind, st[<<g, var>>])
                 IN IF ~populate_state
                    THEN PopulateLoop(k + 1, bd, fd, st, it, populate_state, pv, seed)
                    ELSE IF IsInterface(g)
                    THEN IF Stored(it, g, var)
                         THEN PopulateLoop(k + 1, bd, fd, st, it, populate_state, pv,
                                           np_put(seed, ind, it[<<g, var>>]))
                         ELSE PopulateLoop(k + 1, bd, fd, st, it, populate_state,
                                           np_put(pv, ind, st[<<g, var>>]), seed)
                    ELSE PopulateLoop(k + 1, bd, fd, st, it, populate_state, pv,
                                      np_put(seed, ind,
                                             IF Stored(it, g, var) THEN it[<<g, var>>]
                                             ELSE st[<<g, var>>]))

\* The restriction of the joint forward-AD state to the columns of the variable
restrict_local_width(dof, ad_vars) ==
    LET nrow == Len(unique(dof))
    IN IF Len(dof) # nrow \/ \E k \in 1..Len(dof) : dof[k] >= Len(ad_vars.val)
       THEN Raise("ValueError")
       ELSE Ad_array(np_take(ad_vars.val, dof), identity(nrow))

\* The restriction of lines 717-724: R * ad_vars, R the nrow x ncol matrix
\* with a one at (k, dof[k])
restrict_full_width(dof, ad_vars) ==
    LET ncol == Len(ad_vars.val)
        nrow == Len(unique(dof))
    IN IF Len(dof) # nrow \/ \E k \in 1..Len(dof) : dof[k] >= ncol
       THEN Raise("ValueError")
       ELSE Ad_rmul(ad_vars, SpMatrix(coo_matrix(ones(nrow), arange(0, nrow), dof, nrow, ncol)))

\* Operator._ravel_scipy_matrix on one result
ravel_scipy_matrix(res) ==
    IF res.py # "spmatrix" THEN res
    ELSE IF ~(res.mat.nrow <= 1 \/ res.mat.ncol <= 1) THEN Raise("AssertionError")
    ELSE NdArray([k \in 1..(res.mat.nrow * res.mat.ncol) |->
                     res.mat.a[((k - 1) \div res.mat.ncol) + 1][((k - 1) % res.mat.ncol) + 1]])

\* dict[key], a missing key being a KeyError
Lookup(d, id) == IF id \in DOMAIN d THEN d[id] ELSE Raise("KeyError")

\* The first exception among the results of the children, if any
FirstRaise(results) ==
    IF \E i \in 1..Len(results) : IsRaise(results[i])
    THEN results[CHOOSE i \in 1..Len(results) :
                    IsRaise(results[i]) /\ \A j \in 1..(i - 1) : ~IsRaise(results[j])]
    ELSE Float(0)

\* results[::-1]
Reversed(results) == [i \in 1..Len(results) |-> results[Len(results) + 1 - i]]

\* self._name is None: never, since Operator.__init__ replaces None by ""
NameIsNone(op) == FALSE

\* str(op) of a leaf: __str__ of Scalar, Array and Matrix, and Operator.__str__
\* for the other classes
str(op) ==
    IF op.kind = "Scalar" THEN "Scalar" \o (IF NameIsNone(op) THEN "" ELSE "(" \o op.name \o ")")
    ELSE IF op.kind = "Array"
    THEN "Array" \o (IF NameIsNone(op) THEN "" ELSE "(" \o op.name \o ")")
    ELSE IF op.kind = "Matrix" THEN "Matrix " \o (IF NameIsNone(op) THEN "" ELSE op.name)
    ELSE IF NameIsNone(op) THEN "" ELSE op.name

\* ", ".join(strs)
RECURSIVE join(_)
join(strs) ==
    IF Len(strs) = 0 THEN ""
    ELSE IF Len(strs) = 1 THEN strs[1]
    ELSE strs[1] \o ", " \o join(Tail(strs))

\* Operator._parse_readable(): the text, or the exception it raises
RECURSIVE parse_readable(_)
parse_readable(op) ==
    IF is_leaf(op) THEN [raised |-> "", text |-> str(op)]
    ELSE IF ~NameIsNone(op) THEN [raised |-> "", text |-> op.name]
    ELSE LET child == [i \in 1..Len(op.children) |-> parse_readable(op.children[i])]
             child_str == [i \in 1..Len(child) |-> child[i].text]
             operator_str == IF op.op = "add" THEN "+" ELSE IF op.op = "sub" THEN "-"
                             ELSE IF op.op = "mul" THEN "*" ELSE IF op.op = "div" THEN "/"
                             ELSE ""
         IN IF \E i \in 1..Len(child) : child[i].raised # ""
            THEN [raised |-> "NotImplementedError", text |-> ""]
            ELSE IF op.op \in {"evaluate", "approximate"}
            THEN [raised |-> "",
                  text |-> child_str[1] \o "(" \o join(Tail(child_str)) \o ")"]
            ELSE IF operator_str = "" THEN [raised |-> "NotImplementedError", text |-> ""]
            ELSE IF Len(child_str) < 2 THEN [raised |-> "IndexError", text |-> ""]
            ELSE [raised |-> "",
                  text |-> "(" \o child_str[1] \o " " \o operator_str \o " "
                           \o child_str[2] \o ")"]

\* _get_shape(mat); a number has no shape
get_shape(res) ==
    IF res.py = "Ad_array" THEN [raised |-> "", shape |-> <<res.jac.nrow, res.jac.ncol>>]
    ELSE IF res.py = "ndarray" THEN [raised |-> "", shape |-> <<Len(res.val)>>]
    ELSE IF res.py = "spmatrix" THEN [raised |-> "", shape |-> <<res.mat.nrow, res.mat.ncol>>]
    ELSE [raised |-> "AttributeError", shape |-> <<>>]

\* Operator._get_error_message(operation, tree, results): the parts of the
\* message, or the exception raised while it is built
get_error_message(operation, op, results) ==
    LET msg_0 == parse_readable(op.children[1])
        msg_1 == parse_readable(op.children[2])
        shape_0 == get_shape(results[1])
        shape_1 == get_shape(results[2])
    IN IF msg_0.raised # "" THEN [raised |-> msg_0.raised, msg |-> NoMsg]
       ELSE IF msg_1.raised # "" THEN [raised |-> msg_1.raised, msg |-> NoMsg]
       ELSE IF shape_0.raised # "" THEN [raised |-> shape_0.raised, msg |-> NoMsg]
       ELSE IF shape_1.raised # "" THEN [raised |-> shape_1.raised, msg |-> NoMsg]
       ELSE [raised |-> "",
             msg |-> [head |-> "Ad parsing: Error when " \o operation,
                      msg_0 |-> msg_0.text, msg_1 |-> msg_1.text,
                      shape_0 |-> shape_0.shape, shape_1 |-> shape_1.shape]]

\* The message of the ValueError of an Ad array multiplied from the right by a
\* numpy array
right_multiply_message(op, results) ==
    LET msg_0 == parse_readable(op.children[1])
        msg_1 == parse_readable(op.children[2])
    IN IF msg_0.raised # "" THEN [raised |-> msg_0.raised, msg |-> NoMsg]
       ELSE IF msg_1.raised # "" THEN [raised |-> msg_1.raised, msg |-> NoMsg]
       ELSE [raised |-> "",
             msg |-> [head |-> "Error when right multiplying",
                      msg_0 |-> msg_0.text, msg_1 |-> "numpy array " \o msg_1.text,
                      shape_0 |-> <<Len(results[1].val)>>,
                      shape_1 |-> <<Len(results[2].val)>>]]

\* except ValueError as exc: raise ValueError(msg) from exc, around the
\* combination res of the results
reraise(res, message) ==
    IF ~(IsRaise(res) /\ res.exc = "ValueError") THEN res
    ELSE IF message.raised # "" THEN Raise(message.raised)
    ELSE RaiseFrom("ValueError", message.msg, res)

\* The branch tree.op == Operation.add of _parse_operator
parse_add(op, results) ==
    IF Len(results) # 2 THEN Raise("AssertionError")
    ELSE LET raveled == [i \in 1..2 |-> ravel_scipy_matrix(results[i])]
             r == IF raveled[1].py = "ndarray" THEN Reversed(raveled) ELSE raveled
         IN IF \E i \in 1..2 : IsRaise(raveled[i]) THEN FirstRaise(raveled)
            ELSE reraise(py_add(r[1], r[2]), get_error_message("adding", op, r))

\* The branch tree.op == Operation.sub of _parse_operator with the operands
\* of the difference exchanged
parse_sub_exchanged(op, results) ==
    IF Len(results) # 2 THEN Raise("AssertionError")
    ELSE LET raveled == [i \in 1..2 |-> ravel_scipy_matrix(results[i])]
         IN IF \E i \in 1..2 : IsRaise(raveled[i]) THEN FirstRaise(raveled)
            ELSE py_sub(raveled[2], raveled[1])

\* The branch tree.op == Operation.sub of _parse_operator
parse_sub(op, results) ==
    IF Len(results) # 2 THEN Raise("AssertionError")
    ELSE LET raveled == [i \in 1..2 |-> ravel_scipy_matrix(results[i])]
             swap == raveled[1].py = "ndarray"
             r == IF swap THEN Reversed(raveled) ELSE raveled
             factor == IF swap THEN 0 - 1 ELSE 1
         IN IF \E i \in 1..2 : IsRaise(raveled[i]) THEN FirstRaise(raveled)
            ELSE LET diff == py_sub(r[1], r[2])
                 IN IF IsRaise(diff)
                    THEN reraise(diff, get_error_message("subtracting", op, r))
                    ELSE IF diff = Unmodelled THEN diff
                    ELSE py_mul(Float(factor), diff)

\* The branch tree.op == Operation.mul with a number scaling the value only
parse_mul_value_only(op, results) ==
    IF Len(results) # 2 THEN Raise("AssertionError")
    ELSE LET r == IF results[1].py = "ndarray" /\ results[2].py = "Ad_array"
                  THEN Reversed(results) ELSE results
         IN IF r[1].py = "Ad_array" /\ r[2].py = "float"
            THEN Ad_array(np_scale(r[2].num, r[1].val), r[1].jac)
            ELSE IF r[1].py = "float" /\ r[2].py = "Ad_array"
            THEN Ad_array(np_scale(r[1].num, r[2].val), r[2].jac)
            ELSE py_mul(r[1], r[2])

\* The branch tree.op == Operation.mul of _parse_operator
parse_mul(op, results) ==
    IF Len(results) # 2 THEN Raise("AssertionError")
    ELSE LET r == IF results[1].py = "ndarray" /\ results[2].py = "Ad_array"
                  THEN Reversed(results) ELSE results
         IN reraise(py_mul(r[1], r[2]),
                    IF r[1].py = "Ad_array" /\ r[2].py = "ndarray"
                    THEN right_multiply_message(op, r)
                    ELSE get_error_message("multiplying", op, r))

\* The branch tree.op == Operation.div of _parse_operator
parse_div(results) ==
    IF Len(results) = 0 THEN Raise("IndexError")
    ELSE IF results[1].py = "Ad_array"
    THEN IF Len(results) < 2 THEN Raise("IndexError")
         ELSE Ad_truediv(results[1], results[2])
    ELSE IF results[1].py = "ndarray"
    THEN IF Len(results) < 2 THEN Raise("IndexError")
         ELSE IF results[2].py = "ndarray" THEN np_truediv(results[1].val, results[2].val)
         ELSE IF results[2].py = "Ad_array"
         THEN LET products == ndarray_mul_inverse(results[1].val, results[2])
              IN IF Len(products) = 0 THEN Raise("IndexError") ELSE products[1]
         ELSE Raise("NotImplementedError")
    ELSE Raise("NotImplementedError")

\* The callables given to Function and LJacFunction: "double" is
\* lambda x: 2 * x, "add" is lambda x, y: x + y, and "fails" raises
\* ZeroDivisionError for any arguments
Callables == {"double", "add", "fails"}

\* func(*args)
apply_func(func, args) ==
    IF func = "fails" THEN Raise("ZeroDivisionError")
    ELSE IF func = "double"
    THEN IF Len(args) # 1 THEN Raise("TypeError") ELSE py_mul(Float(2), args[1])
    ELSE IF func = "add"
    THEN IF Len(args) # 2 THEN Raise("TypeError") ELSE py_add(args[1], args[2])
    ELSE Unmodelled

\* len of the shortest of the arrays: where zip(*vals) stops
RECURSIVE ShortestLen(_)
ShortestLen(vals) ==
    IF Len(vals) = 0 THEN 0
    ELSE IF Len(vals) = 1 THEN Len(vals[1].val)
    ELSE Min(Len(vals[1].val), ShortestLen(Tail(vals)))

\* ApproxJacFunction.blackbox_val(*args)
blackbox_val(fn, args) ==
    IF \E i \in 1..Len(args) : args[i].py # "Ad_array" THEN Raise("AttributeError")
    ELSE LET vals == [i \in 1..Len(args) |-> NdArray(args[i].val)]
         IN IF fn.vector_conform THEN apply_func(fn.func, vals)
            ELSE LET items == [k \in 1..ShortestLen(vals) |->
                                  apply_func(fn.func,
                                             [i \in 1..Len(vals) |-> Float(vals[i].val[k])])]
                 IN IF \E k \in 1..Len(items) : IsRaise(items[k]) THEN FirstRaise(items)
                    ELSE IF \E k \in 1..Len(items) : items[k].py # "float" THEN Unmodelled
                    ELSE NdArray([k \in 1..Len(items) |-> items[k].num])

\* The loop of LJacFunction.approx_jac over zip(args[1:], self._L[1:])
RECURSIVE JacLoop(_, _, _)
JacLoop(jac, args, L) ==
    IF Len(args) = 0 \/ Len(L) = 0 THEN SpMatrix(jac)
    ELSE IF args[1].py # "Ad_array" THEN Raise("AttributeError")
    ELSE IF ~SameShape(jac, args[1].jac) THEN Raise("ValueError")
    ELSE JacLoop(mat_add(jac, mat_scale(L[1], args[1].jac)), Tail(args), Tail(L))

\* LJacFunction.approx_jac(*args)
approx_jac(fn, args) ==
    IF Len(args) = 0 THEN Float(0)
    ELSE IF args[1].py # "Ad_array" THEN Raise("AttributeError")
    ELSE IF Len(fn.L) = 0 THEN Raise("IndexError")
    ELSE JacLoop(mat_scale(fn.L[1], args[1].jac), Tail(args), Tail(fn.L))

\* The branch tree.op == Operation.evaluate of _parse_operator
parse_evaluate(results) ==
    IF ~(Len(results) > 1) THEN Raise("AssertionError")
    ELSE IF ~(results[1].py = "Operator" /\ IsFunction(results[1]))
    THEN Raise("AttributeError")
    ELSE apply_func(results[1].func, Tail(results))

\* The message of the ValueError raised for a failing black box
blackbox_message(blackbox_op) ==
    IF blackbox_op.py # "Operator" THEN [raised |-> "AttributeError", msg |-> NoMsg]
    ELSE LET readable == parse_readable(blackbox_op)
         IN IF readable.raised # "" THEN [raised |-> readable.raised, msg |-> NoMsg]
            ELSE [raised |-> "",
                  msg |-> [NoMsg EXCEPT
                             !.head = "Ad parsing: Error evaluating black box operator:",
                             !.msg_0 = readable.text]]

\* except Exception as exc: raise ValueError(msg) from exc
reraise_blackbox(exc, message) ==
    IF message.raised # "" THEN Raise(message.raised)
    ELSE RaiseFrom("ValueError", message.msg, exc)

\* The branch tree.op == Operation.approximate with the exceptions of the
\* black box passed on as they are
parse_approximate_uncaught(results) ==
    IF ~(Len(results) > 1) THEN Raise("AssertionError")
    ELSE IF ~(results[1].py = "Operator" /\ results[1].kind = "LJacFunction")
    THEN Raise("AttributeError")
    ELSE LET val == blackbox_val(results[1], Tail(results))
             jac == approx_jac(results[1], Tail(results))
         IN IF IsRaise(val) THEN val
            ELSE IF IsRaise(jac) THEN jac
            ELSE IF val = Unmodelled \/ val.py # "ndarray" \/ jac.py # "spmatrix" THEN Unmodelled
            ELSE Ad_array(val.val, jac.mat)

\* The branch tree.op == Operation.approximate of _parse_operator
parse_approximate(results) ==
    IF ~(Len(results) > 1) THEN Raise("AssertionError")
    ELSE LET blackbox_op == results[1]
             message == blackbox_message(blackbox_op)
         IN IF ~(blackbox_op.py = "Operator" /\ blackbox_op.kind = "LJacFunction")
            THEN reraise_blackbox(Raise("AttributeError"), message)
            ELSE LET val == blackbox_val(blackbox_op, Tail(results))
                     jac == approx_jac(blackbox_op, Tail(results))
                 IN IF IsRaise(val) THEN reraise_blackbox(val, message)
                    ELSE IF IsRaise(jac) THEN reraise_blackbox(jac, message)
                    ELSE IF val = Unmodelled \/ val.py # "ndarray" \/ jac.py # "spmatrix"
                    THEN Unmodelled
                    ELSE Ad_array(val.val, jac.mat)

\* The last branch of _parse_operator returning the result of the first child
parse_unknown_first(results) == results[1]

\* The last branch of _parse_operator, for the other tags
parse_unknown(results) == Raise("ValueError")

\* The context of a parse: self._ad, self._prev_vals and self._prev_iter_vals
\* Operator._parse_operator(op, gb)
RECURSIVE parse_operator(_, _)
parse_operator(op, ctx) ==
    IF IsVariable(op)
    THEN IF op.kind = "MergedVariable"
         THEN IF op.prev_time THEN Lookup(ctx.prev_vals, op.id)
              ELSE IF op.prev_iter THEN Lookup(ctx.prev_iter_vals, op.id)
              ELSE Lookup(ctx.ad, op.id)
         ELSE IF op.prev_time THEN Lookup(ctx.prev_vals, op.id)
              ELSE IF op.prev_iter \/ ~(op.id \in DOMAIN ctx.ad)
              THEN Lookup(ctx.prev_iter_vals, op.id)
              ELSE Lookup(ctx.ad, op.id)
    ELSE IF is_leaf(op)
    THEN IF op.kind \in {"Scalar", "Array", "Matrix"} THEN op.value
         ELSE IF IsFunction(op) THEN op
         ELSE Raise("NotImplementedError")
    ELSE LET results == [i \in 1..Len(op.children) |-> parse_operator(op.children[i], ctx)]
         IN IF \E i \in 1..Len(results) : IsRaise(results[i]) THEN FirstRaise(results)
            ELSE IF \E i \in 1..Len(results) : results[i] = Unmodelled THEN Unmodelled
            ELSE IF op.op = "add" THEN parse_add(op, results)
            ELSE IF op.op = "sub" THEN parse_sub(op, results)
            ELSE IF op.op = "mul" THEN parse_mul(op, results)
            ELSE IF op.op = "div" THEN parse_div(results)
            ELSE IF op.op = "evaluate" THEN parse_evaluate(results)
            ELSE IF op.op = "approximate" THEN parse_approximate(results)
            ELSE parse_unknown(results)

\* prev_vals_list of line 737 read from the seed vector instead
prev_vals_list_from_state(pop, prev) ==
    [i \in 1..Len(prev) |-> [id |-> prev[i].id, val |-> NdArray(np_take(pop.state, prev[i].ind))]]

\* prev_vals_list of line 737 with the ids of self._prev_time_ids; pop is the
\* outcome of the loop of lines 675-692
prev_vals_list(pop, prev) ==
    [i \in 1..Len(prev) |-> [id |-> prev[i].id, val |-> NdArray(np_take(pop.prev_vals, prev[i].ind))]]

\* prev_iter_vals_list of line 730 with the ids of self._prev_iter_ids
prev_iter_vals_list(pop, prev_iter) ==
    [i \in 1..Len(prev_iter) |->
        [id |-> prev_iter[i].id, val |-> NdArray(np_take(pop.state, prev_iter[i].ind))]]

\* Operator.evaluate(dof_manager, state): the returned value, with the joint
\* seed vector (state), prev_vals and self._ad of the evaluation
evaluate(op, bd, fd, st, it, state_arg) ==
    LET failed(exc) == [result |-> Raise(exc), state |-> <<>>, prev_vals |-> <<>>,
                        ad |-> <<>>]
        iv == identify_variables(op, bd, fd)
        n == num_dofs(fd)
        pop == PopulateLoop(1, bd, fd, st, it, state_arg.is_none, np_zeros(n),
                            IF state_arg.is_none THEN np_zeros(n) ELSE state_arg.value)
        z == Zipped(iv)
        current == SelectSeq(z, IsCurrent)
        prev == SelectSeq(z, IsPrevTime)
        prev_iter == SelectSeq(z, IsPrevIter)
        ad_vars == initAdArrays(pop.state)
        ad_list == [i \in 1..Len(current) |->
                       [id |-> current[i].id, val |-> restrict_full_width(current[i].ind, ad_vars)]]
        ctx == [ad |-> DictOf(ad_list),
                prev_vals |-> DictOf(prev_vals_list(pop, prev)),
                prev_iter_vals |-> DictOf(prev_iter_vals_list(pop, prev_iter))]
    IN IF iv.raised # "" THEN failed(iv.raised)
       ELSE IF pop.raised # "" THEN failed(pop.raised)
       ELSE IF \E i \in 1..Len(ad_list) : IsRaise(ad_list[i].val) THEN failed("ValueError")
       ELSE IF \E i \in 1..Len(prev_iter) : \E k \in 1..Len(prev_iter[i].ind) :
                    prev_iter[i].ind[k] >= Len(pop.state)
       THEN failed("IndexError")
       ELSE [result |-> parse_operator(op, ctx), state |-> pop.state,
             prev_vals |-> pop.prev_vals, ad |-> ctx.ad]

(***************************************************************************)
(* Storing and evaluating on a constructed DofManager                      *)
(***************************************************************************)
\* The data dictionaries of the grids on which equations are evaluated.
DataOf(prim, sec) ==
    [prim |-> [g \in Range(GridLikes) |-> [i \in 1..Len(prim[g]) |->
                    [var |-> prim[g][i], dofs |-> LocalDofs[prim[g][i]]]]],
     sec |-> [g \in Range(GridLikes) |-> [i \in 1..Len(sec[g]) |->
                    [var |-> sec[g][i], dofs |-> LocalDofs[sec[g][i]]]]]]

AdData ==
    {DataOf([sd1 |-> <<"p">>, sd2 |-> <<>>, intf1 |-> <<"p">>],
            [sd1 |-> <<>>, sd2 |-> <<>>, intf1 |-> <<>>]),
     DataOf([sd1 |-> <<>>, sd2 |-> <<"q", "p">>, intf1 |-> <<"p">>],
            [sd1 |-> <<>>, sd2 |-> <<>>, intf1 |-> <<"q">>]),
     DataOf([sd1 |-> <<>>, sd2 |-> <<>>, intf1 |-> <<"p">>],
            [sd1 |-> <<>>, sd2 |-> <<>>, intf1 |-> <<"p">>])}

\* DofManager.__init__(mdg); nothing is stored in the data dictionaries yet
InitAd ==
    \E d \in AdData :
        LET created == create_dofs(d.prim, d.sec, <<>>, None)
        IN /\ primary_variables = d.prim
           /\ secondary_variables = d.sec
           /\ full_dof = <<>> \o created.full_dof
           /\ block_dof = Update(<<>>, created.block_dof)
           /\ state = <<>>
           /\ iterate = <<>>
           /\ Variable_ids = 0
           /\ instances = <<>>
           /\ ret = [op |-> "init", args |-> <<>>, raised |-> "", out |-> <<>>]

\* The vectors of length n that are distributed and evaluated at
Vectors(n) ==
    {[i \in 1..n |-> 1], [i \in 1..n |-> i % (MaxValue + 1)]}

\* An evaluation reads the manager and the stored values and changes neither,
\* so a behaviour ends with it: the calls that follow an evaluation start from
\* the state in which the evaluation started.
\* DofManager.distribute_variable(values, grids, variables, additive, to_iterate)
distribute_variable(values, grids, variables, additive, to_iterate) ==
    \E gs \in (IF grids.is_none
               THEN Listings({block_dof[i].g : i \in 1..Len(block_dof)})
               ELSE {grids.value}) :
    \E vs \in (IF variables.is_none
               THEN Listings({block_dof[i].var : i \in 1..Len(block_dof)})
               ELSE {variables.value}) :
        LET done == DistributeLoop(product(gs, vs), block_dof, full_dof, values,
                                   additive, to_iterate, state, iterate)
        IN /\ ret.op # "evaluate"
           /\ state' = done.state
           /\ iterate' = done.iterate
           /\ ret' = [op |-> "distribute_variable", args |-> <<>>,
                      raised |-> done.raised, out |-> <<>>]
           /\ UNCHANGED <<Variable_ids, instances, primary_variables, secondary_variables, block_dof, full_dof>>

\* eq = tree.evaluate(dof_manager, state)
Evaluate(tree, state_arg) ==
    LET eq == evaluate(tree, block_dof, full_dof, state, iterate, state_arg)
    IN /\ ret.op # "evaluate"
       /\ ret' = [op |-> "evaluate", args |-> [tree |-> tree, state |-> state_arg],
                  raised |-> IF IsRaise(eq.result) THEN eq.result.exc ELSE "",
                  out |-> eq]
       /\ UNCHANGED <<Variable_ids, instances, primary_variables, secondary_variables, block_dof, full_dof,
                      state, iterate>>

\* The Ad variable of the k-th registered pair, as the equation manager makes it
VariableOf(bd, k, id) ==
    IF IsInterface(bd[k].g)
    THEN Variable(bd[k].var, LocalDofs[bd[k].var], None, Some(<<bd[k].g>>),
                  Grid[bd[k].g].num_cells, FALSE, FALSE, id)
    ELSE Variable(bd[k].var, LocalDofs[bd[k].var], Some(<<bd[k].g>>), None, 0,
                  FALSE, FALSE, id)

\* The variables made for a manager with the keys bd: for the k-th pair the
\* current variable and its previous time step and iteration, then a merged
\* variable of no sub-variables, one of all variables named p, and a variable
\* that is not registered.
X(bd, k) == VariableOf(bd, k, 3 * (k - 1))
XPrevTime(bd, k) == previous_timestep(X(bd, k), 3 * (k - 1) + 1)
XPrevIter(bd, k) == previous_iteration(X(bd, k), 3 * (k - 1) + 2)
MergedNone(bd) == MergedVariable(<<>>, 3 * Len(bd))
MergedP(bd) ==
    MergedVariable(SelectSeq([k \in 1..Len(bd) |-> X(bd, k)], LAMBDA v : v.name = "p"),
                   3 * Len(bd) + 1)
MergedPPrevTime(bd) == merged_previous_timestep(MergedP(bd), 3 * Len(bd) + 2)
Unregistered(bd) ==
    Variable("r", LocalDofs["p"], Some(<<"sd1">>), None, 0, FALSE, FALSE, 3 * Len(bd) + 6)

\* The numerators of the quotients that are evaluated: arrays of two entries
\* that every square of a stored entry divides, with equal and with different
\* entries
RECURSIVE Factorial(_)
Factorial(n) == IF n <= 1 THEN 1 ELSE n * Factorial(n - 1)

Numerator == Factorial(MaxValue) * Factorial(MaxValue)

Numerators == {<<Numerator, Numerator>>, <<Numerator, 2 * Numerator>>}

\* The operator trees that are evaluated
Trees(bd) ==
    LET K == 1..Len(bd)
    IN {X(bd, k) : k \in K} \cup {XPrevTime(bd, k) : k \in K} \cup {XPrevIter(bd, k) : k \in K}
       \cup {op_sub(X(bd, kl[1]), X(bd, kl[2])) : kl \in {m \in K \X K : m[1] # m[2]}}
       \cup {op_add(X(bd, kl[1]), X(bd, kl[2])) : kl \in {m \in K \X K : m[1] < m[2]}}
       \cup {op_add(op_rmul(X(bd, kl[1]), Float(a)), op_rmul(X(bd, kl[2]), Float(b))) :
                kl \in {m \in K \X K : m[1] < m[2]}, a \in 1..MaxValue, b \in {1, MaxValue}}
       \cup {op_sub(X(bd, k), XPrevTime(bd, k)) : k \in K}
       \cup {op_add(op_mul(XPrevTime(bd, k), X(bd, k)), XPrevIter(bd, k)) : k \in K}
       \cup {op_mul(X(bd, k), X(bd, k)) : k \in K}
       \cup {op_sub(Array(<<1, 1>>), X(bd, k)) : k \in K}
       \cup {op_mul(Matrix(coo_matrix(ones(2), <<0, 0>>, <<0, 1>>, 1, 2)), X(bd, k)) : k \in K}
       \cup {op_rsub(X(bd, k), Float(1)) : k \in K}
       \cup {op_truediv(Array(c), X(bd, k)) : c \in Numerators, k \in K}
       \cup {op_truediv(Array(<<Numerator, Numerator>>), op_mul(X(bd, k), Float(MaxValue))) :
                k \in K}
       \cup {op_truediv(op_mul(X(bd, 1), Float(MaxValue)), Float(MaxValue)),
             op_truediv(Array(<<Numerator, Numerator>>), Array(<<1, MaxValue>>)),
             op_truediv(Scalar(1), X(bd, 1))}
       \cup {MergedNone(bd), op_add(MergedNone(bd), MergedNone(bd)),
             op_mul(MergedNone(bd), Float(2)),
             MergedP(bd), op_sub(MergedP(bd), MergedPPrevTime(bd)),
             Unregistered(bd), Operator("void", <<>>, ""),
             op_add(Scalar(1), Array(<<1, 2>>))}

NextAd ==
    \/ \E values \in Vectors(num_dofs(full_dof)) :
       \E grids \in {None} \cup {Some(<<g>>) : g \in Range(Interfaces)} :
       \E to_iterate \in BOOLEAN :
            distribute_variable(values, grids, None, FALSE, to_iterate)
    \/ \E tree \in Trees(block_dof) :
       \E state_arg \in {None, Some([i \in 1..num_dofs(full_dof) |-> i % (MaxValue + 1)])} :
            Evaluate(tree, state_arg)

SpecAd == InitAd /\ [][NextAd]_vars

(***************************************************************************)
(* Distributing to and assembling from the stored values                   *)
(***************************************************************************)
\* Largest entry that an additive distribution may leave in the storage.
MaxStored == 2

\* DofManager.assemble_variable: the loop over itertools.product(grids,
\* variables), filling values from the time-step or the iterate storage
RECURSIVE AssembleLoop(_, _, _, _, _)
AssembleLoop(pairs, bd, fd, store, values) ==
    IF pairs = <<>> THEN [raised |-> "", values |-> values]
    ELSE LET g == Head(pairs)[1]
             var == Head(pairs)[2]
         IN IF ~HasKey(bd, g, var)
            THEN AssembleLoop(Tail(pairs), bd, fd, store, values)
            ELSE IF ~Stored(store, g, var)
            THEN [raised |-> "KeyError", values |-> <<>>]
            ELSE LET dof_ind == grid_and_variable_to_dofs(bd, fd, g, var)
                 IN IF Len(store[<<g, var>>]) # Len(dof_ind)
                    THEN [raised |-> "ValueError", values |-> <<>>]
                    ELSE AssembleLoop(Tail(pairs), bd, fd, store,
                                      np_put(values, dof_ind, store[<<g, var>>]))

\* assemble_variable reading the time-step storage whatever from_iterate is
assemble_variable_from_state(bd, fd, st, it, grids, variables, from_iterate) ==
    AssembleLoop(product(grids, variables), bd, fd, st, np_zeros(num_dofs(fd)))

\* DofManager.assemble_variable(grids, variables, from_iterate) for the lists
\* grids and variables
assemble_variable(bd, fd, st, it, grids, variables, from_iterate) ==
    AssembleLoop(product(grids, variables), bd, fd, IF from_iterate THEN it ELSE st,
                 np_zeros(num_dofs(fd)))

\* The grids and the variables that a call without the argument considers:
\* list(set([key[0] for key in self.block_dof])), in any order
DefaultGrids(bd, grids) ==
    IF grids.is_none THEN Listings({bd[i].g : i \in 1..Len(bd)}) ELSE {grids.value}

DefaultVariables(bd, variables) ==
    IF variables.is_none THEN Listings({bd[i].var : i \in 1..Len(bd)}) ELSE {variables.value}

\* The entries of the storage after the call stay within the bound
WithinStored(store) ==
    \A k \in DOMAIN store : \A i \in 1..Len(store[k]) : store[k][i] <= MaxStored

\* DofManager.distribute_variable(values, grids, variables, additive,
\* to_iterate), the call being recorded with its arguments; an additive call
\* is made where the sums stay within the bound.
DistributeVariable(values, grids, variables, additive, to_iterate) ==
    \E gs \in DefaultGrids(block_dof, grids) :
    \E vs \in DefaultVariables(block_dof, variables) :
        LET done == DistributeLoop(product(gs, vs), block_dof, full_dof, values,
                                   additive, to_iterate, state, iterate)
        IN /\ ret.op # "assemble_variable"
           /\ additive => WithinStored(done.state) /\ WithinStored(done.iterate)
           /\ state' = done.state
           /\ iterate' = done.iterate
           /\ ret' = [op |-> "distribute_variable",
                      args |-> [values |-> values, grids |-> grids, variables |-> variables,
                                additive |-> additive, to_iterate |-> to_iterate],
                      raised |-> done.raised, out |-> <<>>]
           /\ UNCHANGED <<Variable_ids, instances, primary_variables, secondary_variables, block_dof, full_dof>>

\* values = DofManager.assemble_variable(grids, variables, from_iterate). The
\* call reads the storage and changes nothing, so a behaviour ends with it.
AssembleVariable(grids, variables, from_iterate) ==
    \E gs \in DefaultGrids(block_dof, grids) :
    \E vs \in DefaultVariables(block_dof, variables) :
        LET done == assemble_variable(block_dof, full_dof, state, iterate, gs, vs,
                                      from_iterate)
        IN /\ ret.op # "assemble_variable"
           /\ ret' = [op |-> "assemble_variable",
                      args |-> [grids |-> grids, variables |-> variables,
                                from_iterate |-> from_iterate],
                      raised |-> done.raised, out |-> done.values]
           /\ UNCHANGED <<Variable_ids, instances, primary_variables, secondary_variables, block_dof, full_dof,
                          state, iterate>>

\* The data dictionaries of the grids whose values are stored: two variables
\* on a subdomain and on the interface, one with a block of size zero; one
\* variable declared twice on the interface.
StoreData ==
    {DataOf([sd1 |-> <<>>, sd2 |-> <<"q">>, intf1 |-> <<"q", "p">>],
            [sd1 |-> <<>>, sd2 |-> <<>>, intf1 |-> <<>>]),
     DataOf([sd1 |-> <<>>, sd2 |-> <<>>, intf1 |-> <<"p">>],
            [sd1 |-> <<>>, sd2 |-> <<>>, intf1 |-> <<"p">>])}

\* DofManager.__init__(mdg); nothing is stored in the data dictionaries yet
InitStore ==
    \E d \in StoreData :
        LET created == create_dofs(d.prim, d.sec, <<>>, None)
        IN /\ primary_variables = d.prim
           /\ secondary_variables = d.sec
           /\ full_dof = <<>> \o created.full_dof
           /\ block_dof = Update(<<>>, created.block_dof)
           /\ state = <<>>
           /\ iterate = <<>>
           /\ Variable_ids = 0
           /\ instances = <<>>
           /\ ret = [op |-> "init", args |-> <<>>, raised |-> "", out |-> <<>>]

\* The selections of grids and of variable names of the calls
GridSelections == {None, Some(<<>>), Some(<<"intf1">>)}

VariableSelections == {None, Some(<<"p">>), Some(<<"r">>)}

NextStore ==
    \/ \E values \in Vectors(num_dofs(full_dof)) :
       \E grids \in GridSelections, variables \in VariableSelections :
       \E additive, to_iterate \in BOOLEAN :
            DistributeVariable(values, grids, variables, additive, to_iterate)
    \/ \E grids \in GridSelections, variables \in VariableSelections :
       \E from_iterate \in BOOLEAN :
            AssembleVariable(grids, variables, from_iterate)

SpecStore == InitStore /\ [][NextStore]_vars

(***************************************************************************)
(* Queries on a constructed DofManager                                     *)
(***************************************************************************)
\* The loop of dof_var over the grids and, for each grid, the names in var:
\* the dofs of every registered pair met, stacked in the order of the loop
RECURSIVE DofVarLoop(_, _, _)
DofVarLoop(pairs, bd, fd) ==
    IF pairs = <<>> THEN <<>>
    ELSE (IF HasKey(bd, Head(pairs)[1], Head(pairs)[2])
          THEN LET block_ind == Get(bd, Head(pairs)[1], Head(pairs)[2])
               IN arange(dof_start(fd, block_ind), dof_start(fd, block_ind + 1))
          ELSE <<>>) \o DofVarLoop(Tail(pairs), bd, fd)

\* DofManager.dof_var(var, return_projection) for a list var of names
dof_var(bd, fd, var, return_projection) ==
    LET dofs == DofVarLoop(product(GridLikes, var), bd, fd)
    IN [dofs |-> dofs,
        projection |-> IF return_projection
                       THEN coo_matrix(ones(Len(dofs)), arange(0, Len(dofs)), dofs,
                                       Len(dofs), num_dofs(fd))
                       ELSE NoJac]

\* np.argmax(dof_start > ind): the first position of dof_start, counted from
\* zero, with an entry larger than ind (0 if there is none)
argmax_larger(fd, ind) ==
    IF \E j \in 0..Len(fd) : dof_start(fd, j) > ind
    THEN CHOOSE j \in 0..Len(fd) :
            /\ dof_start(fd, j) > ind
            /\ \A m \in 0..(j - 1) : ~(dof_start(fd, m) > ind)
    ELSE 0

\* {v: k for k, v in self.block_dof.items()}[block_ind]: the last key with
\* the value block_ind
inv_block_dof(bd, block_ind) ==
    LET last == CHOOSE k \in 1..Len(bd) :
                    bd[k].val = block_ind /\ \A m \in (k + 1)..Len(bd) : bd[m].val # block_ind
    IN <<bd[last].g, bd[last].var>>

\* DofManager.dof_to_grid_and_variable(ind)
dof_to_grid_and_variable(bd, fd, ind) ==
    IF ind >= dof_start(fd, Len(fd)) THEN [raised |-> "ValueError", pair |-> <<>>]
    ELSE IF ind < 0 THEN [raised |-> "ValueError", pair |-> <<>>]
    ELSE LET block_ind == argmax_larger(fd, ind) - 1
         IN IF \E k \in 1..Len(bd) : bd[k].val = block_ind
            THEN [raised |-> "", pair |-> inv_block_dof(bd, block_ind)]
            ELSE [raised |-> "KeyError", pair |-> <<>>]

\* dofs, projection = DofManager.dof_var(var, return_projection)
DofVar(var, return_projection) ==
    /\ ret' = [op |-> "dof_var",
               args |-> [var |-> var, return_projection |-> return_projection],
               raised |-> "", out |-> dof_var(block_dof, full_dof, var, return_projection)]
    /\ UNCHANGED <<Variable_ids, instances, primary_variables, secondary_variables, block_dof, full_dof,
                   state, iterate>>

\* g, var = DofManager.dof_to_grid_and_variable(ind)
DofToGridAndVariable(ind) ==
    LET found == dof_to_grid_and_variable(block_dof, full_dof, ind)
    IN /\ ret' = [op |-> "dof_to_grid_and_variable", args |-> ind,
                  raised |-> found.raised, out |-> found.pair]
       /\ UNCHANGED <<Variable_ids, instances, primary_variables, secondary_variables, block_dof, full_dof,
                      state, iterate>>

\* The queries are made on the managers that __init__ constructs; nothing is
\* stored in the data dictionaries.
NextQuery ==
    \/ \E names \in NameLists : \E return_projection \in BOOLEAN :
          DofVar(names, return_projection)
    \/ \E ind \in (0 - 1)..num_dofs(full_dof) : DofToGridAndVariable(ind)
    \/ \E names \in NameLists : ProjectionTo(names)
    \/ \E grids \in GridSelections, variables \in VariableSelections :
       \E from_iterate \in BOOLEAN :
            AssembleVariable(grids, variables, from_iterate)

SpecQuery == Init /\ [][NextQuery]_vars

(***************************************************************************)
(* Building operator trees with the arithmetic operators                   *)
(***************************************************************************)
\* The outcome of an expression: a node, an array of nodes, or an exception
Built(r) ==
    IF IsRaise(r) THEN [raised |-> r.exc, py |-> "raise", node |-> <<>>, items |-> <<>>]
    ELSE [raised |-> "", py |-> "Operator", node |-> r, items |-> <<>>]

\* The method of Operator for self <sign> other
forward(self, sign, other) ==
    IF sign = "+" THEN method_add(self, other)
    ELSE IF sign = "-" THEN method_sub(self, other)
    ELSE IF sign = "*" THEN method_mul(self, other)
    ELSE method_truediv(self, other)

\* The reflected method of Operator for other <sign> self: __radd__, __rsub__
\* and __rmul__; there is no __rtruediv__, so that python raises TypeError
reflected(self, sign, other) ==
    IF sign = "+" THEN op_radd(self, other)
    ELSE IF sign = "-" THEN op_rsub(self, other)
    ELSE IF sign = "*" THEN op_rmul(self, other)
    ELSE Raise("TypeError")

\* lhs <sign> rhs as python evaluates it. An Operator on the left takes the
\* call. A number or a sparse matrix on the left returns NotImplemented for
\* an Operator, and the reflected method of the Operator is called. A numpy
\* array on the left combines each of its entries with the Operator and
\* returns the array (of data type object) of the outcomes.
binary_op(lhs, sign, rhs) ==
    IF lhs.py = "Operator" THEN Built(forward(lhs, sign, rhs))
    ELSE IF lhs.py = "ndarray"
    THEN LET items == [i \in 1..Len(lhs.val) |-> reflected(rhs, sign, Float(lhs.val[i]))]
         IN IF \E i \in 1..Len(items) : IsRaise(items[i])
            THEN Built(FirstRaise(items))
            ELSE [raised |-> "", py |-> "ndarray", node |-> <<>>, items |-> items]
    ELSE Built(reflected(rhs, sign, lhs))

\* node = lhs <sign> rhs
Combine(lhs, sign, rhs) ==
    LET built == binary_op(lhs, sign, rhs)
    IN /\ ret' = [op |-> "combine", args |-> [lhs |-> lhs, sign |-> sign, rhs |-> rhs],
                  raised |-> built.raised, out |-> built]
       /\ UNCHANGED <<Variable_ids, instances, primary_variables, secondary_variables, block_dof, full_dof,
                      state, iterate>>

\* The operands: Operators (a variable, the three wrapping leaves, two
\* composite nodes, two functions) and the values that are wrapped (a number,
\* a dense array, a sparse matrix)
OperandVariable ==
    Variable("p", LocalDofs["p"], Some(<<"sd1">>), None, 0, FALSE, FALSE, 0)

OperatorOperands ==
    {OperandVariable, Scalar(1), Array(<<1, MaxValue>>), Matrix(identity(2)),
     op_mul(OperandVariable, Float(MaxValue)), op_truediv(Scalar(1), OperandVariable),
     Function("double", "double"), LJacFunction(<<1>>, "double", "L_double", FALSE)}

OtherOperands == {Float(MaxValue), NdArray(<<1, MaxValue>>), SpMatrix(identity(2))}

Signs == {"+", "-", "*", "/"}

\* No grid has variables and no DofManager is needed to build a tree
InitOp ==
    /\ primary_variables = EmptyData
    /\ secondary_variables = EmptyData
    /\ full_dof = <<>>
    /\ block_dof = <<>>
    /\ state = <<>>
    /\ iterate = <<>>
    /\ Variable_ids = 0
    /\ instances = <<>>
    /\ ret = [op |-> "init", args |-> <<>>, raised |-> "", out |-> <<>>]

NextOp ==
    \/ \E lhs \in OperatorOperands, rhs \in OperatorOperands, sign \in Signs :
          Combine(lhs, sign, rhs)
    \/ \E lhs \in OperatorOperands, rhs \in OtherOperands, sign \in Signs :
          Combine(lhs, sign, rhs)
    \/ \E lhs \in OtherOperands, rhs \in OperatorOperands, sign \in Signs :
          Combine(lhs, sign, rhs)

SpecOp == InitOp /\ [][NextOp]_vars

(***************************************************************************)
(* Calling functions and evaluating the trees of the calls                 *)
(***************************************************************************)
\* The Function objects that are called
Functions ==
    {Function("double", "double"), Function("add", "add"), Function("fails", "fails"),
     LJacFunction(<<1>>, "double", "L_double", FALSE),
     LJacFunction(<<1, MaxValue>>, "add", "L_add", TRUE),
     LJacFunction(<<1>>, "fails", "L_fails", FALSE),
     LJacFunction(<<>>, "double", "L_empty", TRUE)}

\* The argument lists of the calls
Arguments(bd) ==
    LET K == 1..Len(bd)
    IN {<<>>, <<Scalar(MaxValue)>>}
       \cup {<<X(bd, k)>> : k \in K}
       \cup {<<X(bd, 1), X(bd, k)>> : k \in K}

\* node = f(*args)
Call(f, args) ==
    /\ ret.op \notin {"evaluate", "call"}
    /\ ret' = [op |-> "call", args |-> [f |-> f, args |-> args], raised |-> "",
               out |-> fn_call(f, args)]
    /\ UNCHANGED <<Variable_ids, instances, primary_variables, secondary_variables, block_dof, full_dof,
                   state, iterate>>

\* An array of one entry more than the largest variable has dofs
LongArray == Array([i \in 1..(2 * MaxValue + 1) |-> 1])

\* Trees with operands of shapes that do not match, and with a composite node
\* of the tag void
OtherTrees(bd) ==
    LET K == 1..Len(bd)
        double == Function("double", "double")
    IN {op_add(X(bd, k), LongArray) : k \in K}
       \cup {op_sub(LongArray, X(bd, k)) : k \in K}
       \cup {op_mul(X(bd, k), LongArray) : k \in K}
       \cup {op_mul(LongArray, X(bd, k)) : k \in K}
       \cup {op_add(op_mul(X(bd, k), Float(2)), LongArray) : k \in K}
       \cup {op_sub(fn_call(double, <<X(bd, k)>>), LongArray) : k \in K}
       \cup {op_mul(op_add(X(bd, k), Float(1)), fn_call(double, <<LongArray>>)) : k \in K}
       \cup {op_add(X(bd, kl[1]), X(bd, kl[2])) : kl \in {m \in K \X K : m[1] < m[2]}}
       \cup {op_add(Array(<<1, 2>>), LongArray)}
       \cup {Operator("void", <<X(bd, k)>>, "") : k \in K}
       \cup {Operator("void", <<X(bd, k), Scalar(1)>>, "named") : k \in K}
       \cup {Operator("void", <<Scalar(1), Scalar(MaxValue)>>, "")}

\* The differences of a number and a variable that are built and evaluated
Differences(bd) ==
    {<<Float(c), X(bd, k)>> : c \in {1, MaxValue}, k \in 1..Len(bd)}
    \cup {<<X(bd, k), Float(c)>> : c \in {1, MaxValue}, k \in 1..Len(bd)}

\* The trees that are evaluated next: the node that was just made by a call
\* or by a difference, else one of the other trees
TreesToEvaluate ==
    IF ret.op = "call" THEN {ret.out}
    ELSE IF ret.op = "combine" THEN (IF ret.raised = "" THEN {ret.out.node} ELSE {})
    ELSE OtherTrees(block_dof)

NextFn ==
    \/ \E values \in Vectors(num_dofs(full_dof)) :
       \E to_iterate \in BOOLEAN :
            /\ ret.op \notin {"call", "combine"}
            /\ distribute_variable(values, None, None, FALSE, to_iterate)
    \/ \E f \in Functions : \E args \in Arguments(block_dof) :
            ret.op # "combine" /\ Call(f, args)
    \/ \E d \in Differences(block_dof) :
            ret.op \notin {"evaluate", "call", "combine"} /\ Combine(d[1], "-", d[2])
    \/ \E tree \in TreesToEvaluate : Evaluate(tree, None)

SpecFn == InitAd /\ [][NextFn]_vars

(***************************************************************************)
(* Constructing variables: the counter Variable._ids and the objects made  *)
(***************************************************************************)
\* Most objects that are kept, and most ids that are taken
MaxInstances == 4
MaxIds == 5

\* The names and the places of the variables that are constructed; the place
\* "" stands for an empty list of grids.
VariableNames == {"p", "q"}
VariablePlaces == {"sd1", "intf1", ""}

\* The kind of object at a place of instances
IsPlainVariable(v) == v.py = "Operator" /\ v.kind = "Variable"
IsMergedVariable(v) == v.py = "Operator" /\ v.kind = "MergedVariable"

\* The increasing sequences of at most two places of plain variables
SubVariableLists ==
    LET plain == {i \in 1..Len(instances) : IsPlainVariable(instances[i])}
    IN {<<>>} \cup {<<i>> : i \in plain}
       \cup {pair \in {<<i, j>> : i \in plain, j \in plain} : pair[1] < pair[2]}

\* v = Variable(name, ndof, grids=[g]) or Variable(name, ndof, edges=[e],
\* num_cells=...): the id is taken after the check of the lists, so that a
\* construction that raises takes none.
NewVariable(name, g) ==
    LET v == IF g = "" THEN Variable(name, LocalDofs[name], Some(<<>>), None, 0,
                                     FALSE, FALSE, Variable_ids)
             ELSE IF IsInterface(g)
             THEN Variable(name, LocalDofs[name], None, Some(<<g>>),
                           Grid[g].num_cells, FALSE, FALSE, Variable_ids)
             ELSE Variable(name, LocalDofs[name], Some(<<g>>), None, 0,
                           FALSE, FALSE, Variable_ids)
    IN /\ Len(instances) < MaxInstances
       /\ Variable_ids < MaxIds
       /\ IF IsRaise(v)
          THEN UNCHANGED <<Variable_ids, instances>>
          ELSE /\ Variable_ids' = Variable_ids + 1
               /\ instances' = Append(instances, v)
       /\ ret' = [op |-> "Variable", args |-> [name |-> name, g |-> g],
                  raised |-> IF IsRaise(v) THEN v.exc ELSE "", out |-> v]
       /\ UNCHANGED <<primary_variables, secondary_variables, block_dof, full_dof,
                      state, iterate>>

\* m = MergedVariable([instances[i] : i in subs]): the id is taken first, the
\* assertion on the names comes after it.
NewMergedVariable(subs) ==
    LET m == MergedVariable([k \in 1..Len(subs) |-> instances[subs[k]]], Variable_ids)
    IN /\ Len(instances) < MaxInstances
       /\ Variable_ids < MaxIds
       /\ Variable_ids' = Variable_ids + 1
       /\ instances' = IF IsRaise(m) THEN instances ELSE Append(instances, m)
       /\ ret' = [op |-> "MergedVariable", args |-> [subs |-> subs],
                  raised |-> IF IsRaise(m) THEN m.exc ELSE "", out |-> m]
       /\ UNCHANGED <<primary_variables, secondary_variables, block_dof, full_dof,
                      state, iterate>>

\* w = instances[i].previous_timestep() or instances[i].previous_iteration():
\* on a merged variable the new sub-variables are made first.
Previous(i, method) ==
    LET v == instances[i]
        w == IF IsMergedVariable(v)
             THEN (IF method = "previous_timestep"
                   THEN merged_previous_timestep(v, Variable_ids)
                   ELSE merged_previous_iteration(v, Variable_ids))
             ELSE (IF method = "previous_timestep"
                   THEN previous_timestep(v, Variable_ids)
                   ELSE previous_iteration(v, Variable_ids))
        made == IF IsMergedVariable(v) THEN w.sub_vars \o <<w>> ELSE <<w>>
    IN /\ Len(instances) + Len(made) <= MaxInstances
       /\ Variable_ids + Len(made) <= MaxIds
       /\ Variable_ids' = Variable_ids + Len(made)
       /\ instances' = instances \o made
       /\ ret' = [op |-> method, args |-> [v |-> v, i |-> i], raised |-> "", out |-> w]
       /\ UNCHANGED <<primary_variables, secondary_variables, block_dof, full_dof,
                      state, iterate>>

\* MergedVariable.copy(): copy.deepcopy(self), the objects that the deep copy
\* makes (the sub-variables, then the merged variable) keeping every
\* attribute of the objects they are copied from.
copy(m) == m.sub_vars \o <<m>>

\* w = instances[i].copy()
Copy(i) ==
    LET made == copy(instances[i])
    IN /\ IsMergedVariable(instances[i])
       /\ Len(instances) + Len(made) <= MaxInstances
       /\ instances' = instances \o made
       /\ ret' = [op |-> "copy", args |-> [v |-> instances[i], i |-> i], raised |-> "",
                  out |-> made[Len(made)]]
       /\ UNCHANGED <<Variable_ids, primary_variables, secondary_variables, block_dof,
                      full_dof, state, iterate>>

NextVar ==
    \/ \E name \in VariableNames, g \in VariablePlaces : NewVariable(name, g)
    \/ \E subs \in SubVariableLists : NewMergedVariable(subs)
    \/ \E i \in 1..Len(instances) :
          \E method \in {"previous_timestep", "previous_iteration"} : Previous(i, method)
    \/ \E i \in 1..Len(instances) : Copy(i)

SpecVar == InitOp /\ [][NextVar]_vars

(***************************************************************************)
(* MortarProjections (grid_operators.py)                                   *)
(***************************************************************************)
\* Longest list of interfaces given to the constructor
MaxEdges == 3

\* The grids of the bucket with their dimensions, and the interfaces with
\* the dimension of their mortar grid: three that join a grid to a grid of
\* one dimension less, one between two grids of the same dimension and one
\* between grids that are two dimensions apart.
BucketGrids == [g2 |-> 2, g1 |-> 1, g1b |-> 1, g0 |-> 0]
BucketEdges ==
    {[primary |-> "g2", secondary |-> "g1",  mg_dim |-> 1],
     [primary |-> "g2", secondary |-> "g1b", mg_dim |-> 1],
     [primary |-> "g1", secondary |-> "g0",  mg_dim |-> 0],
     [primary |-> "g1", secondary |-> "g1b", mg_dim |-> 1],
     [primary |-> "g2", secondary |-> "g0",  mg_dim |-> 0]}

\* The eight attributes, none of them set
NoProjections ==
    [mortar_to_primary_int |-> None, mortar_to_primary_avg |-> None,
     mortar_to_secondary_int |-> None, mortar_to_secondary_avg |-> None,
     primary_to_mortar_int |-> None, primary_to_mortar_avg |-> None,
     secondary_to_mortar_int |-> None, secondary_to_mortar_avg |-> None]

\* if (g_primary.dim != mg.dim + 1) or g_secondary.dim != mg.dim
NonStandard(e) ==
    \/ BucketGrids[e.primary] # e.mg_dim + 1
    \/ BucketGrids[e.secondary] # e.mg_dim

\* The loop over the edges: the lists of blocks, one block per interface,
\* written as the pair of the projected grid and the interface; a grid
\* without projection is a KeyError.
RECURSIVE MortarLoop(_, _, _, _)
MortarLoop(grids, edges, k, lists) ==
    IF k > Len(edges) THEN [raised |-> "", lists |-> lists]
    ELSE LET e == edges[k]
         IN IF NonStandard(e) THEN [raised |-> "NotImplementedError", lists |-> lists]
            ELSE IF e.primary \notin Range(grids) \/ e.secondary \notin Range(grids)
            THEN [raised |-> "KeyError", lists |-> lists]
            ELSE MortarLoop(grids, edges, k + 1,
                            [primary |-> Append(lists.primary, <<e.primary, e>>),
                             secondary |-> Append(lists.secondary, <<e.secondary, e>>)])

\* The constructor that tests the interfaces after it has set the attributes
mortar_projections_set_first(grids, edges) ==
    LET standard == SelectSeq(edges, LAMBDA e : ~NonStandard(e))
        looped == MortarLoop(grids, standard, 1, [primary |-> <<>>, secondary |-> <<>>])
    IN [raised |-> IF standard # edges THEN "NotImplementedError" ELSE looped.raised,
        self |-> [NoProjections EXCEPT
                    !.mortar_to_primary_int = Some(looped.lists.primary),
                    !.mortar_to_primary_avg = Some(looped.lists.primary),
                    !.mortar_to_secondary_int = Some(looped.lists.secondary),
                    !.mortar_to_secondary_avg = Some(looped.lists.secondary),
                    !.primary_to_mortar_int = Some(looped.lists.primary),
                    !.primary_to_mortar_avg = Some(looped.lists.primary),
                    !.secondary_to_mortar_int = Some(looped.lists.secondary),
                    !.secondary_to_mortar_avg = Some(looped.lists.secondary)]]
\* MortarProjections.__init__(gb, grids, edges): the exception raised and the
\* attributes of the object
mortar_projections(grids, edges) ==
    LET looped == MortarLoop(grids, edges, 1, [primary |-> <<>>, secondary |-> <<>>])
    IN IF looped.raised # "" THEN [raised |-> looped.raised, self |-> NoProjections]
       ELSE [raised |-> "",
             self |-> [mortar_to_primary_int |-> Some(looped.lists.primary),
                       mortar_to_primary_avg |-> Some(looped.lists.primary),
                       mortar_to_secondary_int |-> Some(looped.lists.secondary),
                       mortar_to_secondary_avg |-> Some(looped.lists.secondary),
                       primary_to_mortar_int |-> Some(looped.lists.primary),
                       primary_to_mortar_avg |-> Some(looped.lists.primary),
                       secondary_to_mortar_int |-> Some(looped.lists.secondary),
                       secondary_to_mortar_avg |-> Some(looped.lists.secondary)]]

\* The lists of one to MaxEdges interfaces of the bucket
RECURSIVE EdgeListsOfLen(_)
EdgeListsOfLen(n) ==
    IF n = 0 THEN {<<>>}
    ELSE {Append(l, e) : l \in EdgeListsOfLen(n - 1), e \in BucketEdges}
EdgeLists == UNION {EdgeListsOfLen(n) : n \in 1..MaxEdges}

\* proj = MortarProjections(gb, edges=edges), with grids = the grids of gb
NewMortarProjections(edges) ==
    LET grids == <<"g2", "g1", "g1b", "g0">>
        made == mortar_projections(grids, edges)
    IN /\ ret' = [op |-> "MortarProjections", args |-> [grids |-> grids, edges |-> edges],
                  raised |-> made.raised, out |-> made.self]
       /\ UNCHANGED <<Variable_ids, instances, primary_variables, secondary_variables,
                      block_dof, full_dof, state, iterate>>

NextMortar == \E edges \in EdgeLists : NewMortarProjections(edges)

SpecMortar == InitOp /\ [][NextMortar]_vars

(***************************************************************************)
(* Properties of the DofManager                                            *)
(***************************************************************************)
\* The global indices [start, end) of the block of the k-th registered pair.
RangeOf(bd, fd, k) == block_range_from_grid_and_var(bd, fd, bd[k].g, bd[k].var)

InRange(i, r) == r[1] <= i /\ i < r[2]

\* The registered pairs whose block holds the global index i.
Owners(bd, fd, i) == {k \in 1..Len(bd) : InRange(i, RangeOf(bd, fd, k))}

\* C1: the block ranges of the registered pairs are pairwise disjoint and cover
\* [0, num_dofs()): every global index lies in the range of exactly one
\* registered pair, and there are as many registered pairs as block sizes.
DofPartition ==
    /\ Len(block_dof) = Len(full_dof)
    /\ \A i \in 0..(num_dofs(full_dof) - 1) :
          Cardinality(Owners(block_dof, full_dof, i)) = 1

\* C2: append_dofs changes neither the block index nor the block range of a
\* pair registered before the call, and numbers the new blocks after all
\* existing ones.
AppendKeepsBlocks ==
    [][ret'.op = "append_dofs" =>
        /\ \A k \in 1..Len(block_dof) :
              /\ HasKey(block_dof', block_dof[k].g, block_dof[k].var)
              /\ Get(block_dof', block_dof[k].g, block_dof[k].var) = block_dof[k].val
              /\ block_range_from_grid_and_var(block_dof', full_dof',
                                               block_dof[k].g, block_dof[k].var)
                 = RangeOf(block_dof, full_dof, k)
        /\ \A n \in 1..Len(block_dof') :
              ~HasKey(block_dof, block_dof'[n].g, block_dof'[n].var)
              => \A k \in 1..Len(block_dof) : block_dof'[n].val > block_dof[k].val
    ]_vars

\* C2, the part that holds: blocks registered before an append_dofs keep their
\* block index and their range.
AppendKeepsRanges ==
    [][ret'.op = "append_dofs" =>
        \A k \in 1..Len(block_dof) :
            /\ HasKey(block_dof', block_dof[k].g, block_dof[k].var)
            /\ Get(block_dof', block_dof[k].g, block_dof[k].var) = block_dof[k].val
            /\ block_range_from_grid_and_var(block_dof', full_dof',
                                             block_dof[k].g, block_dof[k].var)
               = RangeOf(block_dof, full_dof, k)
    ]_vars

\* A declaration that append_dofs(var_names) scans is already registered.
ScansRegistered(var_names) ==
    \E g \in Range(GridLikes) :
        \E v \in {var_names[i] : i \in 1..Len(var_names)} :
            /\ Declares(primary_variables[g], v) \/ Declares(secondary_variables[g], v)
            /\ HasKey(block_dof, g, v)

\* C3: append_dofs raises ValueError whenever a pair it scans is already
\* registered, so that no pair is registered twice: every block that a call
\* adds belongs to a pair of its own.
AppendRegistersOnce ==
    [][ret'.op = "append_dofs" =>
        /\ ScansRegistered(ret'.args) => ret'.raised = "ValueError"
        /\ Len(full_dof') - Len(full_dof)
           = Cardinality(Keys(block_dof') \ Keys(block_dof))
    ]_vars

\* C3, the part that holds: append_dofs raises ValueError exactly when a pair
\* it scans is already registered.
AppendRaisesOnRegistered ==
    [][ret'.op = "append_dofs" =>
        (ScansRegistered(ret'.args) <=> ret'.raised = "ValueError")]_vars

\* Vectors of length n on which the linear operations are checked: multiples
\* of the unit vectors, and a vector without zero entries.
TestVectors(n) ==
    {[i \in 1..n |-> IF i = k THEN c ELSE 0] : k \in 1..n, c \in 1..MaxValue}
    \cup {[i \in 1..n |-> 1 + (i % MaxValue)]}

\* The global index i lies in the block of a registered pair named in variables.
Selected(bd, fd, variables, i) ==
    \E k \in Owners(bd, fd, i) : InList(bd[k].var, variables)

\* C4: with P = projection_to(V), P^T P x equals x on the indices of the blocks
\* of the pairs named in V and is zero on all other indices.
ProjectionRoundTrip ==
    ret.op = "projection_to" =>
        \A x \in TestVectors(num_dofs(full_dof)) :
            LET y == matvec(transpose(ret.out), matvec(ret.out, x))
            IN \A i \in 1..num_dofs(full_dof) :
                  y[i] = IF Selected(block_dof, full_dof, ret.args, i - 1)
                         THEN x[i] ELSE 0

\* A projection to a variable named twice that selects some, not all, dofs.
ProjectionRoundTripWitness ==
    /\ ret.op = "projection_to"
    /\ ret.args = <<"p", "p">>
    /\ ret.out.nrow > 0
    /\ ret.out.nrow < num_dofs(full_dof)

(***************************************************************************)
(* Properties of Operator.evaluate                                         *)
(***************************************************************************)
Evaluated == ret.op = "evaluate"

\* Every registered pair has a value in the time-step storage
AllStored == \A k \in 1..Len(block_dof) : Stored(state, block_dof[k].g, block_dof[k].var)

\* v is a variable of the current iterate on one grid, registered in the manager
CurrentRegistered(v) ==
    /\ v.kind = "Variable" /\ ~v.prev_time /\ ~v.prev_iter
    /\ HasKey(block_dof, v.g, v.name)

DofsOf(v) ==
    IF v.kind = "MergedVariable" THEN SubVarDofs(block_dof, full_dof, v.sub_vars)
    ELSE grid_and_variable_to_dofs(block_dof, full_dof, v.g, v.name)

WellShaped(A, nrow, ncol) ==
    /\ A.nrow = nrow /\ A.ncol = ncol /\ Len(A.a) = nrow
    /\ \A i \in 1..nrow : Len(A.a[i]) = ncol

\* No evaluated tree without a quotient combines python values outside the
\* modelled arithmetic
RECURSIVE HasDivision(_)
HasDivision(op) ==
    op.op = "div" \/ \E i \in 1..Len(op.children) : HasDivision(op.children[i])

EvaluateModelled == (Evaluated /\ ~HasDivision(ret.args.tree)) => ret.out.result # Unmodelled

\* C5: whenever evaluate returns a forward-AD value, its Jacobian has
\* num_dofs() columns, and the local AD value of every current variable of the
\* tree has as many rows (and entries) as the variable has dofs and num_dofs()
\* columns.
JacobianWidth ==
    (Evaluated /\ Len(ret.out.state) = num_dofs(full_dof) /\ DOMAIN ret.out.ad # {}) =>
        /\ ret.out.result.py = "Ad_array" =>
              WellShaped(ret.out.result.jac, ret.out.result.jac.nrow, num_dofs(full_dof))
        /\ LET found == find_subtree_variables(ret.args.tree)
           IN \A i \in 1..Len(found) :
                (~found[i].prev_time /\ ~found[i].prev_iter) =>
                    /\ found[i].id \in DOMAIN ret.out.ad
                    /\ Len(ret.out.ad[found[i].id].val) = Len(DofsOf(found[i]))
                    /\ WellShaped(ret.out.ad[found[i].id].jac, Len(DofsOf(found[i])),
                                  num_dofs(full_dof))

\* An evaluation without explicit state of a tree of one variable that has
\* fewer dofs than the manager
JacobianWidthWitness ==
    /\ Evaluated /\ ret.args.state.is_none /\ ret.raised = ""
    /\ ret.out.result.py = "Ad_array"
    /\ Cardinality(DOMAIN ret.out.ad) = 1
    /\ 0 < ret.out.result.jac.nrow
    /\ ret.out.result.jac.nrow < ret.out.result.jac.ncol
    /\ ret.out.result.jac.ncol = num_dofs(full_dof)

\* tree is X - Y for two current variables on single grids, of equal size
IsDifference(tree) ==
    /\ tree.op = "sub" /\ Len(tree.children) = 2
    /\ CurrentRegistered(tree.children[1]) /\ CurrentRegistered(tree.children[2])
    /\ Len(DofsOf(tree.children[1])) = Len(DofsOf(tree.children[2]))

\* C6: X - Y for current variables of equal size, with the values of all
\* pairs stored, evaluates to the residual x - y of the values of the two
\* blocks in the evaluation state, with a Jacobian whose row k has +1 in
\* column sx+k, -1 in column sy+k and 0 elsewhere.
DifferenceOfVariables ==
    (Evaluated /\ AllStored /\ IsDifference(ret.args.tree)) =>
        LET dx == DofsOf(ret.args.tree.children[1])
            dy == DofsOf(ret.args.tree.children[2])
            at == ret.out.state
            res == ret.out.result
        IN /\ ret.raised = ""
           /\ ~ret.args.state.is_none => at = ret.args.state.value
           /\ res.py = "Ad_array"
           /\ res.val = [k \in 1..Len(dx) |-> at[dx[k] + 1] - at[dy[k] + 1]]
           /\ WellShaped(res.jac, Len(dx), num_dofs(full_dof))
           /\ \A k \in 1..Len(dx) : \A j \in 1..num_dofs(full_dof) :
                 res.jac.a[k][j] = (IF j = dx[k] + 1 THEN 1 ELSE 0)
                                   - (IF j = dy[k] + 1 THEN 1 ELSE 0)

\* A difference of two variables with a residual that is not zero
DifferenceOfVariablesWitness ==
    /\ Evaluated /\ AllStored /\ IsDifference(ret.args.tree)
    /\ ret.args.tree.children[1] # ret.args.tree.children[2]
    /\ ret.raised = ""
    /\ \E k \in 1..Len(ret.out.result.val) : ret.out.result.val[k] # 0

IsScaled(tree) ==
    /\ tree.op = "mul" /\ Len(tree.children) = 2
    /\ CurrentRegistered(tree.children[1])
    /\ tree.children[2].kind = "Scalar"

\* tree is a*X + b*Y for numbers a, b and current variables X, Y on single
\* grids, of equal size and on different blocks
IsLinearCombination(tree) ==
    /\ tree.op = "add" /\ Len(tree.children) = 2
    /\ IsScaled(tree.children[1]) /\ IsScaled(tree.children[2])
    /\ Len(DofsOf(tree.children[1].children[1])) = Len(DofsOf(tree.children[2].children[1]))
    /\ DofsOf(tree.children[1].children[1]) # DofsOf(tree.children[2].children[1])

\* C7: a*X + b*Y evaluates to a Jacobian that is a times the identity on the
\* columns of X, b times the identity on the columns of Y and zero elsewhere,
\* whatever is stored and whatever state is passed.
LinearCombinationJacobian ==
    (Evaluated /\ AllStored /\ IsLinearCombination(ret.args.tree)) =>
        LET dx == DofsOf(ret.args.tree.children[1].children[1])
            dy == DofsOf(ret.args.tree.children[2].children[1])
            a == ret.args.tree.children[1].children[2].value.num
            b == ret.args.tree.children[2].children[2].value.num
            res == ret.out.result
        IN /\ ret.raised = ""
           /\ res.py = "Ad_array"
           /\ WellShaped(res.jac, Len(dx), num_dofs(full_dof))
           /\ \A k \in 1..Len(dx) : \A j \in 1..num_dofs(full_dof) :
                 res.jac.a[k][j] = (IF j = dx[k] + 1 THEN a ELSE 0)
                                   + (IF j = dy[k] + 1 THEN b ELSE 0)

\* A linear combination with different factors, evaluated at stored values
LinearCombinationJacobianWitness ==
    /\ Evaluated /\ AllStored /\ IsLinearCombination(ret.args.tree)
    /\ ret.args.state.is_none /\ ret.raised = ""
    /\ ret.args.tree.children[1].children[2].value.num
         # ret.args.tree.children[2].children[2].value.num
    /\ \E k \in DOMAIN iterate : iterate[k] # state[k]

\* v is the previous time step of a registered variable on one grid
PrevTimeRegistered(v) ==
    /\ v.kind = "Variable" /\ v.prev_time
    /\ HasKey(block_dof, v.g, v.name)

\* tree is X - X.previous_timestep()
IsTimeDifference(tree) ==
    /\ tree.op = "sub" /\ Len(tree.children) = 2
    /\ CurrentRegistered(tree.children[1]) /\ PrevTimeRegistered(tree.children[2])
    /\ tree.children[1].g = tree.children[2].g
    /\ tree.children[1].name = tree.children[2].name

\* C8: X.previous_timestep() evaluates to the plain array stored in the
\* time-step slot of its pair, and X - X.previous_timestep() to the seed
\* values of X minus that stored array, with the Jacobian of X alone: the
\* previous time step adds nothing to any column, whatever the iterate is.
PreviousTimestepFrozen ==
    /\ (Evaluated /\ AllStored /\ PrevTimeRegistered(ret.args.tree)) =>
          /\ ret.raised = ""
          /\ ret.out.result.py = "ndarray"
          /\ ret.out.result.val = state[<<ret.args.tree.g, ret.args.tree.name>>]
    /\ (Evaluated /\ AllStored /\ IsTimeDifference(ret.args.tree)) =>
          LET x == ret.args.tree.children[1]
              dx == DofsOf(x)
              old == state[<<x.g, x.name>>]
              res == ret.out.result
          IN /\ ret.raised = ""
             /\ res.py = "Ad_array"
             /\ res.val = [k \in 1..Len(dx) |-> ret.out.state[dx[k] + 1] - old[k]]
             /\ WellShaped(res.jac, Len(dx), num_dofs(full_dof))
             /\ \A k \in 1..Len(dx) : \A j \in 1..num_dofs(full_dof) :
                   res.jac.a[k][j] = IF j = dx[k] + 1 THEN 1 ELSE 0

\* X - X.previous_timestep() evaluated where the iterate of X differs from its
\* time-step value
PreviousTimestepFrozenWitness ==
    /\ Evaluated /\ AllStored /\ IsTimeDifference(ret.args.tree)
    /\ ret.args.state.is_none /\ ret.raised = ""
    /\ LET x == ret.args.tree.children[1]
       IN /\ Stored(iterate, x.g, x.name)
          /\ iterate[<<x.g, x.name>>] # state[<<x.g, x.name>>]
          /\ Len(DofsOf(x)) > 0

\* C9: in an evaluation without explicit state (on a manager with one block
\* per registered pair), the seed values of every registered pair are those
\* of its iterate slot if it has one and those of its time-step slot
\* otherwise, on subdomains and interfaces alike.
SeedFromStorage ==
    (Evaluated /\ ret.args.state.is_none /\ Len(ret.out.state) = num_dofs(full_dof)
       /\ ret.out.state # <<>> /\ Len(block_dof) = Len(full_dof)) =>
        \A k \in 1..Len(block_dof) :
            LET g == block_dof[k].g
                var == block_dof[k].var
            IN np_take(ret.out.state, grid_and_variable_to_dofs(block_dof, full_dof, g, var))
                 = IF Stored(iterate, g, var) THEN iterate[<<g, var>>] ELSE state[<<g, var>>]

\* The part of C9 that the code keeps: the seed values of the pairs on
\* subdomains, and of the pairs on interfaces that have an iterate stored
SeedFromStorageOnSubdomains ==
    (Evaluated /\ ret.args.state.is_none /\ Len(ret.out.state) = num_dofs(full_dof)
       /\ ret.out.state # <<>>) =>
        \A k \in 1..Len(block_dof) :
            LET g == block_dof[k].g
                var == block_dof[k].var
                seed == np_take(ret.out.state,
                                grid_and_variable_to_dofs(block_dof, full_dof, g, var))
            IN /\ Stored(iterate, g, var) => seed = iterate[<<g, var>>]
               /\ (~Stored(iterate, g, var) /\ ~IsInterface(g)) => seed = state[<<g, var>>]
               /\ (~Stored(iterate, g, var) /\ IsInterface(g)) => seed = np_zeros(Len(seed))

\* tree is a merged variable of no sub-variables
IsEmptyMerged(tree) ==
    /\ tree.kind = "MergedVariable" /\ Len(tree.sub_vars) = 0
    /\ ~tree.prev_time /\ ~tree.prev_iter

\* C10: a MergedVariable of no sub-variables evaluates without raising, alone
\* and in a sum with itself: its id is the one id that is identified, its index
\* set is empty, its value has size 0 and its Jacobian 0 rows and num_dofs()
\* columns.
EmptyMergedVariable ==
    /\ (Evaluated /\ AllStored /\ IsEmptyMerged(ret.args.tree)) =>
          LET iv == identify_variables(ret.args.tree, block_dof, full_dof)
          IN /\ ret.raised = ""
             /\ iv.variable_ids = <<ret.args.tree.id>>
             /\ iv.inds = << <<>> >>
             /\ DOMAIN ret.out.ad = {ret.args.tree.id}
             /\ ret.out.result.py = "Ad_array"
             /\ ret.out.result.val = <<>>
             /\ WellShaped(ret.out.result.jac, 0, num_dofs(full_dof))
    /\ (Evaluated /\ AllStored /\ ret.args.tree.op = "add"
          /\ \A i \in 1..Len(ret.args.tree.children) : IsEmptyMerged(ret.args.tree.children[i])) =>
          /\ ret.raised = ""
          /\ ret.out.result.py = "Ad_array"
          /\ ret.out.result.val = <<>>
          /\ WellShaped(ret.out.result.jac, 0, num_dofs(full_dof))

\* An empty merged variable evaluated on a manager that has dofs
EmptyMergedVariableWitness ==
    /\ Evaluated /\ AllStored /\ IsEmptyMerged(ret.args.tree)
    /\ ret.raised = ""
    /\ num_dofs(full_dof) > 0
    /\ ret.out.result.jac.ncol = num_dofs(full_dof)

(***************************************************************************)
(* Properties of the division branch of _parse_operator                    *)
(***************************************************************************)
\* The value of a subtree of the evaluated tree, in the evaluation of ret
ValueOf(sub) ==
    evaluate(sub, block_dof, full_dof, state, iterate, ret.args.state).result

\* tree is c / Y for a numeric array c and an operand Y with a forward-AD
\* value of as many entries as c
IsArrayOverAd(tree) ==
    /\ tree.op = "div" /\ Len(tree.children) = 2
    /\ tree.children[1].kind = "Array"
    /\ ValueOf(tree.children[2]).py = "Ad_array"
    /\ Len(ValueOf(tree.children[2]).val) = Len(tree.children[1].value.val)

\* res is the quotient of the array c and the AD value y: its value is c / v
\* and row k of its Jacobian is -(c[k] / v[k]^2) times row k of J
IsQuotient(res, c, y) ==
    /\ res.py = "Ad_array"
    /\ Len(res.val) = Len(c)
    /\ \A k \in 1..Len(c) : res.val[k] * y.val[k] = c[k]
    /\ WellShaped(res.jac, Len(c), y.jac.ncol)
    /\ \A k \in 1..Len(c) : \A j \in 1..y.jac.ncol :
          res.jac.a[k][j] * y.val[k] * y.val[k] = 0 - c[k] * y.jac.a[k][j]

\* C11: a div node of a numeric array c and an AD value (v, J) evaluates to
\* the value c / v and the Jacobian -(c / v^2) * J, row by row (wherever the
\* quotients are numbers of the model).
DivideArrayByAd ==
    (Evaluated /\ AllStored /\ IsArrayOverAd(ret.args.tree)
       /\ ret.out.result # Unmodelled) =>
        /\ ret.raised = ""
        /\ IsQuotient(ret.out.result, ret.args.tree.children[1].value.val,
                      ValueOf(ret.args.tree.children[2]))

\* C11, the part that holds: the quotient is the one of the first entry of c,
\* which is c / v for an array c of equal entries.
DivideFirstEntryByAd ==
    (Evaluated /\ AllStored /\ IsArrayOverAd(ret.args.tree)
       /\ ret.out.result # Unmodelled) =>
        LET c == ret.args.tree.children[1].value.val
        IN /\ ret.raised = ""
           /\ IsQuotient(ret.out.result, [k \in 1..Len(c) |-> c[1]],
                         ValueOf(ret.args.tree.children[2]))

\* The array [4, 4] divided by an AD value with the value [2, 2]
DivideFirstEntryByAdWitness ==
    /\ Evaluated /\ AllStored /\ IsArrayOverAd(ret.args.tree)
    /\ ret.raised = "" /\ ret.out.result.py = "Ad_array"
    /\ ret.args.tree.children[1].value.val = <<4, 4>>
    /\ ValueOf(ret.args.tree.children[2]).val = <<2, 2>>
    /\ ret.out.result.val = <<2, 2>>
    /\ ret.out.result.jac = mat_scale(0 - 1, ValueOf(ret.args.tree.children[2]).jac)

(***************************************************************************)
(* Properties of distribute_variable and assemble_variable                 *)
(***************************************************************************)
\* The k-th registered pair is in the selection of grids and variable names
InSelection(bd, k, grids, variables) ==
    /\ grids.is_none \/ InList(bd[k].g, grids.value)
    /\ variables.is_none \/ InList(bd[k].var, variables.value)

\* The global index i lies in the block of a selected registered pair
SelectedIndex(bd, fd, i, grids, variables) ==
    \E k \in Owners(bd, fd, i) : InSelection(bd, k, grids, variables)

\* C12: distribute_variable(x, selection, slot) followed by
\* assemble_variable(selection, same slot) gives a vector of length
\* num_dofs() that is x on the indices of the selected registered blocks and
\* zero on all others.
DistributeAssembleRoundTrip ==
    [][(/\ ret.op = "distribute_variable" /\ ret.raised = "" /\ ~ret.args.additive
        /\ ret'.op = "assemble_variable"
        /\ ret'.args.grids = ret.args.grids
        /\ ret'.args.variables = ret.args.variables
        /\ ret'.args.from_iterate = ret.args.to_iterate) =>
          /\ ret'.raised = ""
          /\ Len(ret'.out) = num_dofs(full_dof)
          /\ \A i \in 1..num_dofs(full_dof) :
                ret'.out[i]
                  = IF SelectedIndex(block_dof, full_dof, i - 1, ret.args.grids,
                                     ret.args.variables)
                    THEN ret.args.values[i] ELSE 0
    ]_vars

\* The storage from which assemble_variable reads
Slot(from_iterate) == IF from_iterate THEN iterate ELSE state

\* A vector assembled from a selection that leaves out a registered block
\* with stored values: it has the distributed entries on the selected block
\* and zeros on the other
DistributeAssembleRoundTripWitness ==
    /\ ret.op = "assemble_variable" /\ ret.raised = ""
    /\ ~ret.args.grids.is_none
    /\ \E i, j \in 1..num_dofs(full_dof) :
          /\ SelectedIndex(block_dof, full_dof, i - 1, ret.args.grids, ret.args.variables)
          /\ ret.out[i] # 0
          /\ ~SelectedIndex(block_dof, full_dof, j - 1, ret.args.grids, ret.args.variables)
          /\ \E k \in Owners(block_dof, full_dof, j - 1) :
                /\ Stored(Slot(ret.args.from_iterate), block_dof[k].g, block_dof[k].var)
                /\ \E m \in 1..Len(Slot(ret.args.from_iterate)
                                      [<<block_dof[k].g, block_dof[k].var>>]) :
                      Slot(ret.args.from_iterate)[<<block_dof[k].g, block_dof[k].var>>][m] # 0
          /\ ret.out[j] = 0

StrictlyIncreasing(s) == \A i, j \in 1..Len(s) : i < j => s[i] < s[j]

\* The global indices of the blocks of the registered pairs named in variables
SelectedIndices(bd, fd, variables) ==
    {i \in 0..(num_dofs(fd) - 1) : Selected(bd, fd, variables, i)}

\* Row k of P has its single one in column cols[k] (counted from zero)
RowsSelect(P, cols) ==
    /\ WellShaped(P, Len(cols), P.ncol)
    /\ \A k \in 1..P.nrow : \A j \in 1..P.ncol :
          P.a[k][j] = IF j = cols[k] + 1 THEN 1 ELSE 0

\* C14: dof_var returns the global indices of all registered pairs whose name
\* is requested, strictly increasing and without repetition, whatever the
\* order and the repetition of the names; the rows of the projection follow
\* that order.
DofVarSortedUnique ==
    ret.op = "dof_var" =>
        /\ ret.raised = ""
        /\ StrictlyIncreasing(ret.out.dofs)
        /\ Range(ret.out.dofs) = SelectedIndices(block_dof, full_dof, ret.args.var)
        /\ ret.args.return_projection =>
              /\ ret.out.projection.ncol = num_dofs(full_dof)
              /\ RowsSelect(ret.out.projection, ret.out.dofs)

\* C14, the part that holds: dof_var returns the indices of the requested
\* registered pairs, a name given n times giving them n times, and the rows
\* of the projection follow the returned array.
DofVarSelects ==
    ret.op = "dof_var" =>
        /\ ret.raised = ""
        /\ Range(ret.out.dofs) = SelectedIndices(block_dof, full_dof, ret.args.var)
        /\ ret.args.return_projection =>
              /\ ret.out.projection.ncol = num_dofs(full_dof)
              /\ WellShaped(ret.out.projection, Len(ret.out.dofs), num_dofs(full_dof))
              /\ \A k \in 1..Len(ret.out.dofs) :
                    ret.out.projection.a[k][ret.out.dofs[k] + 1] >= 1

\* C15: projection_to(variables) is a 0/1 matrix with num_dofs() columns and
\* one 1 per row, whose rows select the dofs of the requested variables in
\* increasing global order, none twice, whatever the order and the repetition
\* of the names.
ProjectionSelectsInOrder ==
    ret.op = "projection_to" =>
        LET cols == SortedSeq(SelectedIndices(block_dof, full_dof, ret.args))
        IN /\ ret.out.ncol = num_dofs(full_dof)
           /\ RowsSelect(ret.out, cols)
           /\ StrictlyIncreasing(cols)

\* A projection to names given in the reverse of the block order, selecting
\* the blocks of two names and leaving out a third block
ProjectionSelectsInOrderWitness ==
    /\ ret.op = "projection_to" /\ ret.args = <<"q", "p">>
    /\ \E k, n \in 1..Len(block_dof) :
          /\ block_dof[k].var = "p" /\ block_dof[n].var = "q"
          /\ block_dof[k].val < block_dof[n].val
          /\ full_dof[block_dof[k].val + 1] > 0 /\ full_dof[block_dof[n].val + 1] > 0
    /\ ret.out.nrow > 1

\* The request names no registered pair
SelectsNothing(bd, variables) == \A k \in 1..Len(bd) : ~InList(bd[k].var, variables)

\* C16: a request with an empty selection does not raise: projection_to
\* returns a matrix of 0 rows and num_dofs() columns, dof_var an index array
\* of length 0 (and a projection of 0 rows), assemble_variable the zero
\* vector of length num_dofs().
EmptySelectionReturns ==
    /\ (ret.op = "projection_to" /\ SelectsNothing(block_dof, ret.args)) =>
          /\ ret.raised = ""
          /\ WellShaped(ret.out, 0, num_dofs(full_dof))
    /\ (ret.op = "dof_var" /\ SelectsNothing(block_dof, ret.args.var)) =>
          /\ ret.raised = ""
          /\ ret.out.dofs = <<>>
          /\ ret.args.return_projection =>
                WellShaped(ret.out.projection, 0, num_dofs(full_dof))
    /\ (ret.op = "assemble_variable"
          /\ \A k \in 1..Len(block_dof) :
                ~InSelection(block_dof, k, ret.args.grids, ret.args.variables)) =>
          /\ ret.raised = ""
          /\ ret.out = np_zeros(num_dofs(full_dof))

\* A projection to a name that no pair of a manager with dofs has
EmptySelectionReturnsWitness ==
    /\ ret.op = "projection_to" /\ ret.args = <<"r">>
    /\ num_dofs(full_dof) > 0
    /\ ret.out.nrow = 0 /\ ret.out.ncol = num_dofs(full_dof)

\* dof_var and assemble_variable asked for an empty selection on a manager
\* with dofs
EmptyDofVarReached ==
    /\ ret.op = "dof_var" /\ ret.args.return_projection /\ num_dofs(full_dof) > 0
    /\ SelectsNothing(block_dof, ret.args.var)

EmptyAssembleReached ==
    /\ ret.op = "assemble_variable" /\ num_dofs(full_dof) > 0
    /\ ret.args.grids = Some(<<>>) /\ ret.out = np_zeros(num_dofs(full_dof))

\* C19: dof_to_grid_and_variable(i) returns, for 0 <= i < num_dofs(), the
\* registered pair whose block range contains i, and raises ValueError for
\* every other i.
DofToPairInverse ==
    ret.op = "dof_to_grid_and_variable" =>
        IF 0 <= ret.args /\ ret.args < num_dofs(full_dof)
        THEN /\ ret.raised = ""
             /\ HasKey(block_dof, ret.out[1], ret.out[2])
             /\ InRange(ret.args, block_range_from_grid_and_var(block_dof, full_dof,
                                                                ret.out[1], ret.out[2]))
        ELSE ret.raised = "ValueError"

\* C19, the part that holds: the same on a manager with one block per
\* registered pair.
DofToPairInverseOnPartition ==
    (ret.op = "dof_to_grid_and_variable" /\ Len(block_dof) = Len(full_dof)) =>
        IF 0 <= ret.args /\ ret.args < num_dofs(full_dof)
        THEN /\ ret.raised = ""
             /\ HasKey(block_dof, ret.out[1], ret.out[2])
             /\ InRange(ret.args, block_range_from_grid_and_var(block_dof, full_dof,
                                                                ret.out[1], ret.out[2]))
        ELSE ret.raised = "ValueError"

\* An index found behind a block of size zero
DofToPairInverseOnPartitionReached ==
    /\ ret.op = "dof_to_grid_and_variable" /\ ret.raised = ""
    /\ Len(block_dof) = Len(full_dof)
    /\ \E k \in 1..Len(full_dof) : full_dof[k] = 0 /\ k < Get(block_dof, ret.out[1], ret.out[2]) + 1

(***************************************************************************)
(* Properties of append_dofs                                               *)
(***************************************************************************)
\* The pairs that append_dofs(var_names) finds in the data dictionaries
ScannedPairs(var_names) ==
    {gv \in Range(GridLikes) \X Range(var_names) :
        Declares(primary_variables[gv[1]], gv[2]) \/ Declares(secondary_variables[gv[1]], gv[2])}

\* Some of the pairs found are registered already and others are not
MixedScan(var_names) ==
    /\ \E gv \in ScannedPairs(var_names) : HasKey(block_dof, gv[1], gv[2])
    /\ \E gv \in ScannedPairs(var_names) : ~HasKey(block_dof, gv[1], gv[2])

\* C17 as stated: append_dofs, called when some of the pairs found for the
\* names are registered and others are not, registers every pair not yet
\* present after the existing blocks and leaves the present pairs as they
\* are.
AppendRegistersMissing ==
    [][(ret'.op = "append_dofs" /\ MixedScan(ret'.args)) =>
          /\ \A gv \in ScannedPairs(ret'.args) : HasKey(block_dof', gv[1], gv[2])
          /\ \A k \in 1..Len(block_dof) :
                /\ HasKey(block_dof', block_dof[k].g, block_dof[k].var)
                /\ Get(block_dof', block_dof[k].g, block_dof[k].var) = block_dof[k].val
    ]_vars

\* C17 as amended: append_dofs, called when some of the pairs found for the
\* names are registered and others are not, raises ValueError and registers
\* nothing: block map and block sizes are left as they are.
AppendMixedRaises ==
    [][(ret'.op = "append_dofs" /\ MixedScan(ret'.args)) =>
          /\ ret'.raised = "ValueError"
          /\ block_dof' = block_dof
          /\ full_dof' = full_dof
    ]_vars

\* append_dofs has raised on names for which a registered pair and a pair
\* that is declared but not registered are found
AppendMixedRaisesWitness ==
    /\ ret.op = "append_dofs" /\ ret.raised = "ValueError"
    /\ MixedScan(ret.args)
    /\ num_dofs(full_dof) > 0

\* No name of var_names is a primary variable of any grid
NoPrimary(var_names) ==
    \A g \in Range(GridLikes) : \A v \in Range(var_names) : ~Declares(primary_variables[g], v)

\* C18: append_dofs(var_names) changes neither the block map nor the block
\* sizes nor num_dofs() when no name of var_names is declared as a primary
\* variable of any subdomain or interface.
AppendOnlyPrimary ==
    [][(ret'.op = "append_dofs" /\ NoPrimary(ret'.args)) =>
          /\ block_dof' = block_dof
          /\ full_dof' = full_dof
          /\ num_dofs(full_dof') = num_dofs(full_dof)
    ]_vars

\* C18, the part that holds: append_dofs returns and changes nothing when no
\* name of var_names is declared at all.
AppendUndeclared ==
    [][(ret'.op = "append_dofs" /\ ScannedPairs(ret'.args) = {}) =>
          /\ ret'.raised = ""
          /\ block_dof' = block_dof
          /\ full_dof' = full_dof
    ]_vars

(***************************************************************************)
(* Properties of the arithmetic operators of Operator                      *)
(***************************************************************************)
\* Operation.add, sub, mul, div
Tag(sign) ==
    IF sign = "+" THEN "add" ELSE IF sign = "-" THEN "sub"
    ELSE IF sign = "*" THEN "mul" ELSE "div"

\* The leaf into which an operand that is no Operator is wrapped
Wrapped(x) ==
    IF x.py = "Operator" THEN x
    ELSE IF x.py = "float" THEN Scalar(x.num)
    ELSE IF x.py = "ndarray" THEN Array(x.val)
    ELSE Matrix(x.mat)

\* built is a new composite node tagged with the operation of sign, whose two
\* children are the operands, the one that is no Operator wrapped into a leaf
IsCombination(built, lhs, sign, rhs) ==
    /\ built.raised = "" /\ built.py = "Operator"
    /\ built.node.op = Tag(sign)
    /\ Len(built.node.children) = 2
    /\ Range(built.node.children) = {Wrapped(lhs), Wrapped(rhs)}

\* One of the operands of the combination is a Function object (these are
\* leaves that are called, not combined)
HasFunctionOperand ==
    /\ ret.op = "combine"
    /\ \/ ret.args.lhs.py = "Operator" /\ IsFunction(ret.args.lhs)
       \/ ret.args.rhs.py = "Operator" /\ IsFunction(ret.args.rhs)

\* C20: every combination with +, -, * or / of an Operator with an Operator,
\* a dense array, a sparse matrix or a scalar, on either side, succeeds and
\* returns a composite node tagged with the operation, with two children.
CombinationBuildsNode ==
    (ret.op = "combine" /\ ~HasFunctionOperand) =>
        IsCombination(ret.out, ret.args.lhs, ret.args.sign, ret.args.rhs)

\* C20, the part that holds: the combinations with an Operator on the left,
\* and those with a scalar or a sparse matrix on the left of +, - or *.
CombinationFromOperator ==
    (/\ ret.op = "combine" /\ ~HasFunctionOperand
     /\ \/ ret.args.lhs.py = "Operator"
        \/ ret.args.lhs.py \in {"float", "spmatrix"} /\ ret.args.sign # "/") =>
        /\ IsCombination(ret.out, ret.args.lhs, ret.args.sign, ret.args.rhs)
        /\ ret.out.node.children
             = IF ret.args.lhs.py = "Operator"
               THEN <<ret.args.lhs, Wrapped(ret.args.rhs)>>
               ELSE <<ret.args.rhs, Wrapped(ret.args.lhs)>>

\* A scalar divided by an Operator
ScalarOverOperatorReached ==
    /\ ret.op = "combine" /\ ret.args.sign = "/"
    /\ ret.args.lhs.py = "float" /\ ret.args.rhs.py = "Operator"
    /\ ret.raised = "TypeError"

(***************************************************************************)
(* append_dofs that raises                                                 *)
(***************************************************************************)
\* The declarations of the names of var_names, in the order of the scan
ScannedItems(var_names) ==
    SelectSeq(ScanOrder(GridLikes, primary_variables, secondary_variables),
              LAMBDA it : InList(it.var, var_names))

\* C27: if append_dofs raises ValueError because a scanned pair is already
\* registered, the manager is left as it was before the call: block map,
\* block sizes and num_dofs() are unchanged, also when pairs scanned earlier
\* in the same call were new.
AppendRaiseLeavesManager ==
    [][(ret'.op = "append_dofs" /\ ret'.raised = "ValueError") =>
          /\ block_dof' = block_dof
          /\ full_dof' = full_dof
          /\ num_dofs(full_dof') = num_dofs(full_dof)
    ]_vars

\* append_dofs has raised at a registered pair after it had scanned a pair
\* with dofs that was not registered
AppendRaiseLeavesManagerWitness ==
    /\ ret.op = "append_dofs" /\ ret.raised = "ValueError"
    /\ LET items == ScannedItems(ret.args)
       IN \E i \in 1..Len(items) : \E j \in 1..Len(items) :
             /\ i < j
             /\ ~HasKey(block_dof, items[i].g, items[i].var)
             /\ total_local_dofs(items[i].g, items[i].dofs) > 0
             /\ HasKey(block_dof, items[j].g, items[j].var)
             /\ \A k \in 1..(j - 1) : ~HasKey(block_dof, items[k].g, items[k].var)

(***************************************************************************)
(* Properties of function calls                                            *)
(***************************************************************************)
\* The values of the arguments of a call, each evaluated on its own
ArgumentValues(args) ==
    [i \in 1..Len(args) |-> evaluate(args[i], block_dof, full_dof, state, iterate, None).result]

\* C21: calling a Function leaf f with the arguments a1..an returns a new
\* composite node whose children are f, a1, ..., an in that order, tagged
\* evaluate for a Function and approximate for an ApproxJacFunction; the
\* function is not applied when the node is made (the call returns a node also
\* for a function that raises) but when the tree is evaluated, to the values
\* of the arguments.
CallBuildsNode ==
    [][/\ ret'.op = "call" =>
            /\ ret'.raised = ""
            /\ ~is_leaf(ret'.out) /\ ret'.out.kind = "Operator"
            /\ ret'.out.children = <<ret'.args.f>> \o ret'.args.args
            /\ ret'.out.op = (IF ret'.args.f.kind = "Function" THEN "evaluate"
                              ELSE "approximate")
       /\ (/\ ret.op = "call" /\ ret'.op = "evaluate"
           /\ ret.args.f.kind = "Function" /\ Len(ret.args.args) > 0
           /\ \A i \in 1..Len(ret.args.args) : ~IsRaise(ArgumentValues(ret.args.args)[i])) =>
            /\ ret'.args.tree = ret.out
            /\ ret'.out.result = apply_func(ret.args.f.func, ArgumentValues(ret.args.args))
      ]_vars

\* The tree of a call of the function that doubles a variable with dofs has
\* been evaluated to an Ad array
CallBuildsNodeWitness ==
    /\ ret.op = "evaluate" /\ ret.raised = ""
    /\ ret.args.tree.op = "evaluate" /\ Len(ret.args.tree.children) = 2
    /\ ret.args.tree.children[1].func = "double"
    /\ ret.out.result.py = "Ad_array"
    /\ \E i \in 1..Len(ret.out.result.val) : ret.out.result.val[i] > 0

\* The tree of a call of the function that raises has been made and evaluated
CallOfFailingEvaluated ==
    /\ ret.op = "evaluate" /\ ret.raised = "ZeroDivisionError"
    /\ ret.args.tree.op = "evaluate"
    /\ ret.args.tree.children[1].func = "fails"

(***************************************************************************)
(* Errors of the black box of an approximate node                          *)
(***************************************************************************)
\* The tree of a call of an LJacFunction with arguments that evaluate has been
\* evaluated
ApproximateEvaluated ==
    /\ ret.op = "evaluate"
    /\ ret.args.tree.op = "approximate" /\ Len(ret.args.tree.children) > 1
    /\ ret.args.tree.children[1].kind = "LJacFunction"
    /\ \A i \in 1..Len(Tail(ret.args.tree.children)) :
          ~IsRaise(ArgumentValues(Tail(ret.args.tree.children))[i])

\* C24: an exception raised by the value function of the black box or by the
\* routine of the approximate Jacobian while an approximate node is evaluated
\* is caught at the node and raised again, as an error whose message names
\* the failing black-box operator and whose cause is the original exception.
BlackboxErrorWrapped ==
    ApproximateEvaluated =>
        LET f == ret.args.tree.children[1]
            values == ArgumentValues(Tail(ret.args.tree.children))
            val == blackbox_val(f, values)
            jac == approx_jac(f, values)
        IN (IsRaise(val) \/ IsRaise(jac)) =>
              /\ ret.raised = "ValueError"
              /\ ret.out.result.msg.head = "Ad parsing: Error evaluating black box operator:"
              /\ ret.out.result.msg.msg_0 = f.name
              /\ ret.out.result.cause = (IF IsRaise(val) THEN val.exc ELSE jac.exc)

\* The callable of an approximate node has raised ZeroDivisionError
BlackboxErrorWrappedWitness ==
    /\ ApproximateEvaluated
    /\ ret.args.tree.children[1].func = "fails"
    /\ ret.raised = "ValueError" /\ ret.out.result.cause = "ZeroDivisionError"

\* approx_jac of an approximate node has raised: self._L is empty
ApproxJacErrorReached ==
    /\ ApproximateEvaluated
    /\ ret.args.tree.children[1].L = <<>>
    /\ ret.raised = "ValueError" /\ ret.out.result.cause = "IndexError"

\* An approximate node has been evaluated to an Ad array
ApproximateValueReached ==
    /\ ApproximateEvaluated /\ ret.raised = ""
    /\ ret.out.result.py = "Ad_array"
    /\ \E i \in 1..Len(ret.out.result.val) : ret.out.result.val[i] > 0

(***************************************************************************)
(* Composite nodes with another tag                                        *)
(***************************************************************************)
\* The tags for which _parse_operator has a branch
KnownTags == {"add", "sub", "mul", "div", "evaluate", "approximate"}

\* C25: evaluating a composite node (a node with at least one child) whose
\* tag is none of add, sub, mul, div, evaluate and approximate raises an
\* error; no value is returned for it.
UnknownTagRaises ==
    (/\ ret.op = "evaluate"
     /\ ~is_leaf(ret.args.tree) /\ ret.args.tree.op \notin KnownTags) =>
        /\ ret.raised # ""
        /\ IsRaise(ret.out.result)

\* A node of the tag void whose children evaluate has been evaluated and
\* ValueError was raised
UnknownTagRaisesWitness ==
    /\ ret.op = "evaluate"
    /\ ret.args.tree.op = "void" /\ Len(ret.args.tree.children) > 0
    /\ \A i \in 1..Len(ret.args.tree.children) :
          ~IsRaise(ArgumentValues(ret.args.tree.children)[i])
    /\ ret.raised = "ValueError"

(***************************************************************************)
(* The message of a shape mismatch                                         *)
(***************************************************************************)
\* The rendering of a sub-expression: a leaf by its label, a composite that
\* has a name by the name, another composite by the infix string of the
\* renderings of its children, or f(args) for a function node
RECURSIVE Rendering(_)
Rendering(op) ==
    IF is_leaf(op) THEN str(op)
    ELSE IF op.name # "" THEN op.name
    ELSE LET child == [i \in 1..Len(op.children) |-> Rendering(op.children[i])]
         IN IF op.op \in {"evaluate", "approximate"}
            THEN child[1] \o "(" \o join(Tail(child)) \o ")"
            ELSE "(" \o child[1] \o " "
                 \o (IF op.op = "add" THEN "+" ELSE IF op.op = "sub" THEN "-"
                     ELSE IF op.op = "mul" THEN "*" ELSE "/")
                 \o " " \o child[2] \o ")"

\* The shapes of a value: of the array, and of the Jacobian of an Ad array
ShapesOf(v) ==
    IF v.py = "Ad_array" THEN {<<Len(v.val)>>, <<v.jac.nrow, v.jac.ncol>>}
    ELSE {<<Len(v.val)>>}

\* An add, sub or mul node has been evaluated whose two children evaluate to
\* arrays of different lengths, none of length one
MismatchEvaluated ==
    /\ ret.op = "evaluate"
    /\ ret.args.tree.op \in {"add", "sub", "mul"} /\ Len(ret.args.tree.children) = 2
    /\ LET values == ArgumentValues(ret.args.tree.children)
       IN /\ \A i \in 1..2 : values[i].py \in {"Ad_array", "ndarray"}
          /\ Len(values[1].val) # Len(values[2].val)
          /\ Len(values[1].val) # 1 /\ Len(values[2].val) # 1

\* The message of the exception names the two children as rendered by
\* readable, and their shapes
MessageRenders(readable(_)) ==
    LET children == ret.args.tree.children
        values == ArgumentValues(children)
        msg == ret.out.result.msg
    IN /\ ret.raised = "ValueError"
       /\ msg.msg_0 = readable(children[1])
       /\ msg.msg_1 \in {readable(children[2]), "numpy array " \o readable(children[2])}
       /\ \E p \in {<<1, 2>>, <<2, 1>>} :
             msg.shape_0 \in ShapesOf(values[p[1]]) /\ msg.shape_1 \in ShapesOf(values[p[2]])

\* C23: when an add, sub or mul node is evaluated on operands of shapes that
\* do not match, a ValueError is raised whose message has a rendering of both
\* children and their shapes: a leaf by its label, a composite with a name by
\* the name, a composite without a name by the infix string (left op right),
\* or f(args) for a function node, of its children.
ShapeErrorRendersOperands ==
    MismatchEvaluated => MessageRenders(Rendering)

\* What _parse_readable returns: the label of a leaf, the name of a composite
CodeRendering(op) == IF is_leaf(op) THEN str(op) ELSE op.name

\* C23, the part that holds: the ValueError is raised with the shapes, every
\* leaf is rendered by its label and every composite by its name, which is
\* empty for the node of a function call.
ShapeErrorRendersNames ==
    MismatchEvaluated => MessageRenders(CodeRendering)

\* The difference of a function call and an array of another length has been
\* evaluated
ShapeErrorOfCallReached ==
    /\ MismatchEvaluated
    /\ ret.args.tree.children[1].op = "evaluate"
    /\ ret.raised = "ValueError" /\ ret.out.result.cause = "ValueError"

(***************************************************************************)
(* The order of the operands of a difference                               *)
(***************************************************************************)
\* The difference of a number and an Operator whose value is an Ad array, or
\* of such an Operator and a number, has been built and then evaluated in
\* this step
DifferenceEvaluated(number_first) ==
    /\ ret.op = "combine" /\ ret.args.sign = "-" /\ ret'.op = "evaluate"
    /\ ret'.args.tree = ret.out.node
    /\ (IF number_first THEN ret.args.lhs.py = "float" ELSE ret.args.rhs.py = "float")
    /\ LET X_ == IF number_first THEN ret.args.rhs ELSE ret.args.lhs
       IN X_.py = "Operator" /\ ArgumentValues(<<X_>>)[1].py = "Ad_array"

\* C28: for a scalar c and an Operator X, the tree built by c - X evaluates
\* to c minus the value of X, with minus the Jacobian of X, just as X - c
\* evaluates to the value of X minus c.
SubtractionRespectsOrder ==
    [][/\ DifferenceEvaluated(TRUE) =>
            LET x == ArgumentValues(<<ret.args.rhs>>)[1]
                c == ret.args.lhs.num
            IN /\ ret'.raised = "" /\ ret'.out.result.py = "Ad_array"
               /\ ret'.out.result.val = [i \in 1..Len(x.val) |-> c - x.val[i]]
               /\ ret'.out.result.jac = mat_scale(0 - 1, x.jac)
       /\ DifferenceEvaluated(FALSE) =>
            LET x == ArgumentValues(<<ret.args.lhs>>)[1]
                c == ret.args.rhs.num
            IN /\ ret'.raised = "" /\ ret'.out.result.py = "Ad_array"
               /\ ret'.out.result.val = [i \in 1..Len(x.val) |-> x.val[i] - c]
               /\ ret'.out.result.jac = x.jac
      ]_vars

\* C28, what holds: c - X builds the tree of X - c, and both evaluate to the
\* value of X minus c with the Jacobian of X.
SubtractionIgnoresOrder ==
    [][\A number_first \in BOOLEAN : DifferenceEvaluated(number_first) =>
            LET X_ == IF number_first THEN ret.args.rhs ELSE ret.args.lhs
                x == ArgumentValues(<<X_>>)[1]
                c == IF number_first THEN ret.args.lhs.num ELSE ret.args.rhs.num
            IN /\ ret.out.node = op_sub(X_, Float(c))
               /\ ret'.raised = "" /\ ret'.out.result.py = "Ad_array"
               /\ ret'.out.result.val = [i \in 1..Len(x.val) |-> x.val[i] - c]
               /\ ret'.out.result.jac = x.jac
      ]_vars

\* The tree of c - X has been evaluated to an Ad array with an entry that is
\* not zero
ScalarMinusOperatorReached ==
    /\ ret.op = "evaluate" /\ ret.raised = ""
    /\ ret.args.tree.op = "sub" /\ ret.args.tree.children[2].kind = "Scalar"
    /\ ret.out.result.py = "Ad_array"
    /\ \E i \in 1..Len(ret.out.result.val) : ret.out.result.val[i] # 0

(***************************************************************************)
(* Function objects as operands                                            *)
(***************************************************************************)
\* C29: using a Function or an ApproxJacFunction itself as an operand of +,
\* -, * or /, on either side, raises RuntimeError and builds no node.
FunctionOperandRaises ==
    HasFunctionOperand =>
        /\ ret.raised = "RuntimeError"
        /\ ret.out.py = "raise"

\* C29, the part that holds: RuntimeError is raised when __mul__, __add__ or
\* __sub__ of the Function is called, that is for a Function on the left of
\* +, - or *, and on the right of them when the left operand is a number or a
\* sparse matrix.
FunctionMethodRaises ==
    (/\ ret.op = "combine" /\ ret.args.sign # "/"
     /\ \/ ret.args.lhs.py = "Operator" /\ IsFunction(ret.args.lhs)
        \/ /\ ret.args.lhs.py \in {"float", "spmatrix"}
           /\ ret.args.rhs.py = "Operator" /\ IsFunction(ret.args.rhs)) =>
        /\ ret.raised = "RuntimeError"
        /\ ret.out.py = "raise"

\* A Function divided by a number has built a node
FunctionDividedReached ==
    /\ ret.op = "combine" /\ ret.args.sign = "/"
    /\ ret.args.lhs.py = "Operator" /\ IsFunction(ret.args.lhs)
    /\ ret.args.rhs.py = "float"
    /\ ret.raised = "" /\ ret.out.py = "Operator" /\ ret.out.node.op = "div"

\* A variable times a Function has built a node
OperatorTimesFunctionReached ==
    /\ ret.op = "combine" /\ ret.args.sign = "*"
    /\ ret.args.lhs.py = "Operator" /\ ret.args.lhs.kind = "Variable"
    /\ ret.args.rhs.py = "Operator" /\ IsFunction(ret.args.rhs)
    /\ ret.raised = "" /\ ret.out.py = "Operator" /\ ret.out.node.op = "mul"

(***************************************************************************)
(* Properties of the variables                                             *)
(***************************************************************************)
\* C22: no two distinct Variable or MergedVariable objects carry the same id,
\* the ids are handed out in strictly increasing order and none is used
\* again, and the id of a merged variable differs from the ids of its
\* sub-variables.
VariableIdsUnique ==
    /\ \A i, j \in 1..Len(instances) : i < j => instances[i].id < instances[j].id
    /\ \A i \in 1..Len(instances) :
          /\ instances[i].id >= 0 /\ instances[i].id < Variable_ids
          /\ \A k \in 1..Len(instances[i].sub_vars) :
                instances[i].sub_vars[k].id # instances[i].id

\* C22, the part that holds: every call other than copy() gives the objects
\* it makes ids that are larger than every id handed out before, in the order
\* in which they are made, and a merged variable never has the id of one of
\* its sub-variables.
ConstructionTakesFreshIds ==
    [][ret'.op # "copy" =>
          /\ Variable_ids' >= Variable_ids
          /\ Len(instances') >= Len(instances)
          /\ \A i \in (Len(instances) + 1)..Len(instances') :
                /\ instances'[i].id >= Variable_ids
                /\ instances'[i].id < Variable_ids'
                /\ \A j \in (Len(instances) + 1)..(i - 1) :
                      instances'[j].id < instances'[i].id
                /\ \A k \in 1..Len(instances'[i].sub_vars) :
                      instances'[i].sub_vars[k].id # instances'[i].id]_vars

\* A merged variable has been copied
MergedCopyReached ==
    /\ ret.op = "copy"
    /\ \E i, j \in 1..Len(instances) :
          i # j /\ IsMergedVariable(instances[i]) /\ instances[i].id = instances[j].id

\* A construction that raised, and a merged variable of two sub-variables
FailedConstructionReached ==
    /\ ret.op = "Variable" /\ ret.raised = "ValueError"
    /\ \E i \in 1..Len(instances) : Len(instances[i].sub_vars) = 2

\* C30: previous_timestep() and previous_iteration() of a Variable, on a
\* subdomain or on an interface, return a Variable of the same name, place,
\* dofs per cell, face and node and size(), with another id and with the one
\* flag of the method set.
PreviousKeepsVariable ==
    (/\ ret.op \in {"previous_timestep", "previous_iteration"}
     /\ IsPlainVariable(ret.args.v)) =>
        /\ IsPlainVariable(ret.out)
        /\ ret.out.name = ret.args.v.name
        /\ ret.out.g = ret.args.v.g
        /\ ret.out.is_edge_var = ret.args.v.is_edge_var
        /\ ret.out.cells = ret.args.v.cells
        /\ ret.out.faces = ret.args.v.faces
        /\ ret.out.nodes = ret.args.v.nodes
        /\ size(ret.out) = size(ret.args.v)
        /\ ret.out.id # ret.args.v.id
        /\ ret.out.prev_time = (ret.op = "previous_timestep")
        /\ ret.out.prev_iter = (ret.op = "previous_iteration")

\* C30, the part that holds: all of it on a subdomain, and on an interface
\* all of it but the size.
PreviousKeepsSubdomainVariable ==
    (/\ ret.op \in {"previous_timestep", "previous_iteration"}
     /\ IsPlainVariable(ret.args.v)) =>
        /\ IsPlainVariable(ret.out)
        /\ ret.out.name = ret.args.v.name
        /\ ret.out.g = ret.args.v.g
        /\ ret.out.is_edge_var = ret.args.v.is_edge_var
        /\ ret.out.cells = ret.args.v.cells
        /\ ret.out.faces = ret.args.v.faces
        /\ ret.out.nodes = ret.args.v.nodes
        /\ ret.out.id # ret.args.v.id
        /\ ret.out.prev_time = (ret.op = "previous_timestep")
        /\ ret.out.prev_iter = (ret.op = "previous_iteration")
        /\ IF ret.args.v.is_edge_var
           THEN size(ret.out) = 0
           ELSE size(ret.out) = size(ret.args.v)

\* The previous time step of an interface variable with dofs
PreviousOfInterfaceReached ==
    /\ ret.op = "previous_timestep"
    /\ IsPlainVariable(ret.args.v) /\ ret.args.v.is_edge_var
    /\ size(ret.args.v) > 0 /\ size(ret.out) = 0

(***************************************************************************)
(* Properties of MortarProjections                                         *)
(***************************************************************************)
\* C26: the construction of MortarProjections raises NotImplementedError when
\* one interface of the list does not join a grid of the dimension of the
\* mortar grid plus one to a grid of the dimension of the mortar grid, and
\* then none of the eight projection attributes is set.
NonStandardInterfaceRaises ==
    (/\ ret.op = "MortarProjections"
     /\ \E k \in 1..Len(ret.args.edges) :
           \/ BucketGrids[ret.args.edges[k].primary] # ret.args.edges[k].mg_dim + 1
           \/ BucketGrids[ret.args.edges[k].secondary] # ret.args.edges[k].mg_dim) =>
        /\ ret.raised = "NotImplementedError"
        /\ ret.out = NoProjections

\* A list with two interfaces of codimension one before one between two grids
\* of the same dimension
NonStandardInterfaceRaisesWitness ==
    /\ ret.op = "MortarProjections"
    /\ Len(ret.args.edges) = 3
    /\ ~NonStandard(ret.args.edges[1]) /\ ~NonStandard(ret.args.edges[2])
    /\ ret.args.edges[3].primary = "g1" /\ ret.args.edges[3].secondary = "g1b"
    /\ ret.raised = "NotImplementedError"
    /\ ret.out = NoProjections

\* A list of interfaces of codimension one, the eight attributes set
ProjectionsMade ==
    /\ ret.op = "MortarProjections" /\ ret.raised = ""
    /\ Len(ret.args.edges) = 2
    /\ ~ret.out.mortar_to_primary_int.is_none
    /\ ~ret.out.secondary_to_mortar_avg.is_none

====
